---------------------------- MODULE Spec2Model ----------------------------
(***************************************************************************)
(* A model of the Block of business of the ALM library (src/alm/core.py)   *)
(* together with the liability instruments (src/alm/liability.py) and the  *)
(* collaborators it reads (mortality table, credit-spread curve, seeded    *)
(* random generator).                                                      *)
(*                                                                         *)
(* Python floats are modelled as exact rationals <<n, d>> in lowest terms  *)
(* with d > 0, so that sums of face values can be compared exactly.        *)
(***************************************************************************)
EXTENDS Integers, Sequences, FiniteSets, Bags, TLC

VARIABLES
    cfg,         \* b -> the constructor arguments of Block b (never reassigned)
    premium,     \* b -> <<>> (None) or <<p>> (Block.premium)
    _policies,   \* b -> Block._policies
    _assets,     \* b -> Block._assets
    purchases,   \* b -> number of reinvest calls that purchased (bounds the model)
    ret,         \* the last call: operation, block, argument, outcome, value
    local        \* the frame of a constructor or module-level function call:
                 \* its arguments, its local variables and how it ended

vars == <<cfg, premium, _policies, _assets, purchases, ret, local>>

-----------------------------------------------------------------------------
(* Bounds of the model.                                                    *)

MaxPolicies == 2
MaxReinvest == 2

-----------------------------------------------------------------------------
(* Exact rational arithmetic standing for float arithmetic.                *)

Abs(n) == IF n < 0 THEN -n ELSE n

RECURSIVE GCD(_, _)
GCD(a, b) == IF b = 0 THEN a ELSE GCD(b, a % b)

Norm(n, d) ==
    LET g == GCD(Abs(n), d) IN <<n \div g, d \div g>>

R(n, d) == Norm(n, d)

Zero == <<0, 1>>
One == <<1, 1>>

RAdd(a, b) ==
    LET g == GCD(a[2], b[2])
        l == (a[2] \div g) * b[2]
    IN  Norm(a[1] * (l \div a[2]) + b[1] * (l \div b[2]), l)

RNeg(a) == <<-a[1], a[2]>>

RSub(a, b) == RAdd(a, RNeg(b))

RMul(a, b) ==
    IF a[1] = 0 \/ b[1] = 0 THEN Zero
    ELSE LET g1 == GCD(Abs(a[1]), b[2])
             g2 == GCD(Abs(b[1]), a[2])
         IN  <<(a[1] \div g1) * (b[1] \div g2), (a[2] \div g2) * (b[2] \div g1)>>

RInv(a) == IF a[1] > 0 THEN <<a[2], a[1]>> ELSE <<-a[2], -a[1]>>

RDiv(a, b) == IF a[1] = 0 THEN Zero ELSE RMul(a, RInv(b))

RLt(a, b) == RSub(a, b)[1] < 0

RLe(a, b) == RSub(a, b)[1] <= 0

RMax(a, b) == IF RLt(a, b) THEN b ELSE a

RMin(a, b) == IF RLt(b, a) THEN b ELSE a

RECURSIVE RPow(_, _)
RPow(a, n) ==
    IF n = 0 THEN One
    ELSE LET h == RPow(a, n \div 2)
         IN  IF n % 2 = 0 THEN RMul(h, h) ELSE RMul(a, RMul(h, h))

\* int(t) and round(t, 6) of a non-negative float.
Trunc(a) == a[1] \div a[2]

Round6(a) ==
    LET num == a[1] * 1000000
        q == num \div a[2]
        twice == 2 * (num % a[2])
        up == twice > a[2] \/ (twice = a[2] /\ q % 2 = 1)
    IN  R(IF up THEN q + 1 ELSE q, 1000000)

\* The sum of s[lo..hi], split in halves to keep the recursion shallow.
RECURSIVE RSumRange(_, _, _)
RSumRange(s, lo, hi) ==
    IF lo > hi THEN Zero
    ELSE IF lo = hi THEN s[lo]
    ELSE LET mid == (lo + hi) \div 2
         IN  RAdd(RSumRange(s, lo, mid), RSumRange(s, mid + 1, hi))

RSum(s) == RSumRange(s, 1, Len(s))

RECURSIVE Concat(_)
Concat(ss) == IF ss = <<>> THEN <<>> ELSE Head(ss) \o Concat(Tail(ss))

-----------------------------------------------------------------------------
(* Collaborators: the mortality table and the credit-spread curve.         *)

\* A mortality table with the columns age, sex, qx: both sexes, two ages, and
\* certain death at the last age.
mortality_table ==
    { [age |-> 60, sex |-> "male",   qx |-> R(1, 2)],
      [age |-> 61, sex |-> "male",   qx |-> R(1, 1)],
      [age |-> 60, sex |-> "female", qx |-> R(1, 4)],
      [age |-> 61, sex |-> "female", qx |-> R(1, 1)] }

\* The rows of a table in ascending age order, as the qx column.
RECURSIVE SortedQx(_)
SortedQx(rows) ==
    IF rows = {} THEN <<>>
    ELSE LET first == CHOOSE r \in rows : \A o \in rows : r.age <= o.age
         IN  <<first.qx>> \o SortedQx(rows \ {first})

\* qx_from_table: <<>> stands for the ValueError raised when no row matches.
qx_rows(table, age, sex) == {r \in table : r.sex = sex /\ r.age >= age}

qx_from_table(table, age, sex) == SortedQx(qx_rows(table, age, sex))

\* The credit-spread curve: rating -> tenor -> basis points.
credit_tenors == <<1, 3, 5, 10, 30>>

credit_spreads ==
    [ AAA |-> <<10, 20, 30, 40, 60>>,
      AA  |-> <<20, 30, 40, 60, 80>>,
      A   |-> <<40, 50, 70, 90, 120>>,
      BBB |-> <<80, 100, 130, 160, 200>>,
      BB  |-> <<200, 250, 300, 350, 400>>,
      B   |-> <<400, 450, 500, 560, 640>> ]

TenorSet == {credit_tenors[i] : i \in 1..Len(credit_tenors)}

TenorBps(rating, tenor) ==
    credit_spreads[rating][CHOOSE i \in 1..Len(credit_tenors) : credit_tenors[i] = tenor]

SetMax(S) == CHOOSE x \in S : \A y \in S : y <= x

SetMin(S) == CHOOSE x \in S : \A y \in S : x <= y

\* get_spread: exact tenor, else linear interpolation between the nearest
\* tenors, clamped to the end points; the result is a decimal (bps / 10000).
get_spread(rating, maturity) ==
    IF maturity \in TenorSet THEN R(TenorBps(rating, maturity), 10000)
    ELSE LET below == {t \in TenorSet : t <= maturity}
             above == {t \in TenorSet : t >= maturity}
             lower == IF below # {} THEN SetMax(below) ELSE credit_tenors[1]
             upper == IF above # {} THEN SetMin(above) ELSE credit_tenors[Len(credit_tenors)]
         IN  IF lower = upper THEN R(TenorBps(rating, lower), 10000)
             ELSE LET bps_lo == TenorBps(rating, lower)
                      bps_hi == TenorBps(rating, upper)
                      frac == R(maturity - lower, upper - lower)
                  IN  RDiv(RAdd(R(bps_lo, 1), RMul(frac, R(bps_hi - bps_lo, 1))), R(10000, 1))

-----------------------------------------------------------------------------
(* The seeded generator (random.Random): a linear congruential generator   *)
(* stands for the Mersenne Twister; a state is a number in 0..RngMod-1.    *)

RngMod == 64
RngMul == 13
RngInc == 7

\* random.Random(seed): the state is a function of the seed alone.
RandomSeeded(seed) == (seed * 29 + 11) % RngMod

RngStep(s) == (RngMul * s + RngInc) % RngMod

\* rng.randint(a, b) after one step: a value in a..b.
randint(s, a, b) == a + ((s \div 4) % (b - a + 1))

\* rng.choices(["male", "female"], weights=[g, 1 - g])[0] after one step:
\* random() = s / RngMod falls below the cumulative weight g or not.
choices_sex(s, g) == IF RLt(R(s, RngMod), g) THEN "male" ELSE "female"

-----------------------------------------------------------------------------
(* Liability instruments (src/alm/liability.py).                           *)

\* Probability of surviving from time 0 to t years (UDD within each year).
RECURSIVE SurvivalProduct(_, _)
SurvivalProduct(qx, k) ==
    IF k = 0 THEN One ELSE RMul(SurvivalProduct(qx, k - 1), RSub(One, qx[k]))

\* A survival curve that keeps applying the last qx past the end of qx.
_survival_prob_extrapolated(qx, t) ==
    LET year == Trunc(t)
        frac == RSub(t, R(year, 1))
        last == IF year < Len(qx) THEN year + 1 ELSE Len(qx)
        sp == SurvivalProduct(qx, IF year < Len(qx) THEN year ELSE Len(qx))
    IN  IF RLt(Zero, frac) /\ last > 0
        THEN RMul(sp, RSub(One, RMul(frac, qx[last])))
        ELSE sp

\* A survival curve whose within-year decrement shrinks as the year goes by.
_survival_prob_reversed(qx, t) ==
    LET year == Trunc(t)
        frac == RSub(t, R(year, 1))
        sp == SurvivalProduct(qx, IF year < Len(qx) THEN year ELSE Len(qx))
    IN  IF RLt(Zero, frac) /\ year < Len(qx)
        THEN RMul(sp, RSub(One, RMul(RSub(One, frac), qx[year + 1])))
        ELSE sp

_survival_prob(qx, t) ==
    LET year == Trunc(t)
        frac == RSub(t, R(year, 1))
        sp == SurvivalProduct(qx, IF year < Len(qx) THEN year ELSE Len(qx))
    IN  IF RLt(Zero, frac) /\ year < Len(qx)
        THEN RMul(sp, RSub(One, RMul(frac, qx[year + 1])))
        ELSE sp

SPIA(premium_, annual_payout, qx, age) ==
    [kind |-> "SPIA", premium |-> premium_, annual_payout |-> annual_payout,
     qx |-> qx, frequency |-> 12, certain_period |-> 0, age |-> age]

WL(face_value, annual_premium, qx, age) ==
    [kind |-> "WL", face_value |-> face_value, annual_premium |-> annual_premium,
     qx |-> qx, frequency |-> 12, age |-> age]

Term(face_value, annual_premium, term, qx, age) ==
    [kind |-> "Term", face_value |-> face_value, annual_premium |-> annual_premium,
     term |-> term, qx |-> qx, frequency |-> 12, age |-> age]

FIA(premium_, term, qx, age) ==
    [kind |-> "FIA", premium |-> premium_, term |-> term, qx |-> qx,
     floor |-> Zero, cap |-> R(6, 100), participation_rate |-> One, age |-> age]

\* SPIA.cashflows with the guarantee ending one period early (yr < certain_period).
SPIA_cashflows_strict(p) ==
    LET pmt == RDiv(p.annual_payout, R(p.frequency, 1))
        n_periods == Len(p.qx) * p.frequency
    IN  [t \in 1..n_periods |->
            LET yr == R(t, p.frequency)
                sp == _survival_prob(p.qx, yr)
            IN  [period |-> t, year |-> Round6(yr), payout |-> pmt,
                 survival_prob |-> sp,
                 expected_payout |->
                    IF RLt(yr, R(p.certain_period, 1)) THEN pmt ELSE RMul(pmt, sp)]]

\* SPIA.cashflows: one row per period.
SPIA_cashflows(p) ==
    LET pmt == RDiv(p.annual_payout, R(p.frequency, 1))
        n_periods == Len(p.qx) * p.frequency
    IN  [t \in 1..n_periods |->
            LET yr == R(t, p.frequency)
                sp == _survival_prob(p.qx, yr)
            IN  [period |-> t, year |-> Round6(yr), payout |-> pmt,
                 survival_prob |-> sp,
                 expected_payout |->
                    IF RLe(yr, R(p.certain_period, 1)) THEN pmt ELSE RMul(pmt, sp)]]

\* The rows of WL.cashflows for a given number of periods.
LifeRows(p, n_periods) ==
    LET pmt == RDiv(p.annual_premium, R(p.frequency, 1))
    IN  [t \in 1..n_periods |->
            LET yr_start == R(t - 1, p.frequency)
                yr_end == R(t, p.frequency)
                sp_start == _survival_prob(p.qx, yr_start)
                sp_end == _survival_prob(p.qx, yr_end)
                death_prob == RSub(sp_start, sp_end)
                exp_prem == RMul(pmt, sp_start)
                exp_ben == RMul(p.face_value, death_prob)
            IN  [period |-> t, year |-> Round6(yr_end), survival_prob |-> sp_end,
                 expected_premium |-> exp_prem, expected_benefit |-> exp_ben,
                 net_cashflow |-> RSub(exp_ben, exp_prem)]]

WL_cashflows(p) == LifeRows(p, Len(p.qx) * p.frequency)

\* Term.cashflows stopping at the end of qx when the term is longer.
Term_cashflows_capped(p) ==
    LifeRows(p, (IF p.term < Len(p.qx) THEN p.term ELSE Len(p.qx)) * p.frequency)

\* Term.cashflows: the same loop over term * frequency periods.
Term_cashflows(p) ==
    LET pmt == RDiv(p.annual_premium, R(p.frequency, 1))
        n_periods == p.term * p.frequency
    IN  [t \in 1..n_periods |->
            LET yr_start == R(t - 1, p.frequency)
                yr_end == R(t, p.frequency)
                sp_start == _survival_prob(p.qx, yr_start)
                sp_end == _survival_prob(p.qx, yr_end)
                death_prob == RSub(sp_start, sp_end)
                exp_prem == RMul(pmt, sp_start)
                exp_ben == RMul(p.face_value, death_prob)
            IN  [period |-> t, year |-> Round6(yr_end), survival_prob |-> sp_end,
                 expected_premium |-> exp_prem, expected_benefit |-> exp_ben,
                 net_cashflow |-> RSub(exp_ben, exp_prem)]]

\* FIA.credited_rate: participation rate, then cap, then floor.
credited_rate(p, index_rate) ==
    RMax(p.floor, RMin(p.cap, RMul(index_rate, p.participation_rate)))

\* FIA._build_account_values: [AV_0, ..., AV_k], k = min(term, len(index_rates));
\* element i + 1 of the sequence is AV_i.
RECURSIVE AccountValue(_, _, _)
AccountValue(p, index_rates, y) ==
    IF y = 0 THEN p.premium
    ELSE RMul(AccountValue(p, index_rates, y - 1),
              RAdd(One, credited_rate(p, index_rates[y])))

_build_account_values(p, index_rates) ==
    LET k == IF Len(index_rates) < p.term THEN Len(index_rates) ELSE p.term
    IN  [i \in 1..(k + 1) |-> AccountValue(p, index_rates, i - 1)]

\* FIA.cashflows paying the maturity benefit in every year.
FIA_cashflows_maturity_every_year(p, index_rates) ==
    LET avs == _build_account_values(p, index_rates)
    IN  IF Len(avs) < p.term + 1 THEN <<>>
        ELSE [yr \in 1..p.term |->
                LET av == avs[yr + 1]
                    sp_start == _survival_prob(p.qx, R(yr - 1, 1))
                    sp_end == _survival_prob(p.qx, R(yr, 1))
                    dp == RSub(sp_start, sp_end)
                    ed == RMul(av, dp)
                    em == RMul(av, sp_end)
                IN  [year |-> yr, account_value |-> av, survival_prob |-> sp_end,
                     death_prob |-> dp, expected_death_benefit |-> ed,
                     expected_maturity_benefit |-> em, net_cashflow |-> RAdd(ed, em)]]

\* FIA.cashflows: avs[yr] is out of range (IndexError) when fewer than term
\* index rates are given; <<>> stands for that exception.
FIA_cashflows(p, index_rates) ==
    LET avs == _build_account_values(p, index_rates)
    IN  IF Len(avs) < p.term + 1 THEN <<>>
        ELSE [yr \in 1..p.term |->
                LET av == avs[yr + 1]
                    sp_start == _survival_prob(p.qx, R(yr - 1, 1))
                    sp_end == _survival_prob(p.qx, R(yr, 1))
                    dp == RSub(sp_start, sp_end)
                    ed == RMul(av, dp)
                    em == IF yr = p.term THEN RMul(av, sp_end) ELSE Zero
                IN  [year |-> yr, account_value |-> av, survival_prob |-> sp_end,
                     death_prob |-> dp, expected_death_benefit |-> ed,
                     expected_maturity_benefit |-> em, net_cashflow |-> RAdd(ed, em)]]

-----------------------------------------------------------------------------
(* Strategic asset allocation and rating distributions (src/alm/core.py).  *)

\* Rating distributions per asset class, in dictionary order.
GOVT_RATING_DIST == << <<"AAA", R(70, 100)>>, <<"AA", R(30, 100)>> >>

CORP_RATING_DIST ==
    << <<"A", R(30, 100)>>, <<"BBB", R(50, 100)>>, <<"BB", R(15, 100)>>, <<"B", R(5, 100)>> >>

PC_RATING_DIST == << <<"BB", R(40, 100)>>, <<"B", R(60, 100)>> >>

\* x > 1e-9 for a rational x, without overflowing the cross product.
ExceedsTolerance(x) ==
    IF x[1] <= 0 THEN FALSE
    ELSE IF x[1] >= 3 THEN TRUE
    ELSE x[1] * 1000000000 > x[2]

RECURSIVE SumOver(_, _)
SumOver(f, keys) ==
    IF keys = {} THEN Zero
    ELSE LET k == CHOOSE x \in keys : TRUE IN RAdd(f[k], SumOver(f, keys \ {k}))

\* __post_init__ without the loop that rejects negative weights.
SAA_post_init_unsigned(weights) ==
    LET total == SumOver(weights, DOMAIN weights)
        diff == RSub(total, One)
        pc_weight == IF "private_credit" \in DOMAIN weights
                     THEN weights["private_credit"] ELSE Zero
    IN  /\ ~ExceedsTolerance(IF diff[1] < 0 THEN RNeg(diff) ELSE diff)
        /\ ~ExceedsTolerance(RSub(pc_weight, R(10, 100)))

\* SAA.__post_init__: TRUE when the constructor returns, FALSE when it raises.
SAA_post_init(weights) ==
    LET total == SumOver(weights, DOMAIN weights)
        diff == RSub(total, One)
        pc_weight == IF "private_credit" \in DOMAIN weights
                     THEN weights["private_credit"] ELSE Zero
    IN  /\ ~ExceedsTolerance(IF diff[1] < 0 THEN RNeg(diff) ELSE diff)
        /\ \A k \in DOMAIN weights : ~(weights[k][1] < 0)
        /\ ~ExceedsTolerance(RSub(pc_weight, R(10, 100)))

\* SAA.allocation: dollar amounts per asset class.
allocation(weights, total_amount) ==
    [k \in DOMAIN weights |-> RMul(weights[k], total_amount)]

\* alloc.get(key, 0)
alloc_get(alloc, key) == IF key \in DOMAIN alloc THEN alloc[key] ELSE Zero

default_saa ==
    [govt_bonds |-> R(40, 100), corp_bonds |-> R(30, 100),
     mortgages |-> R(20, 100), private_credit |-> R(10, 100)]

\* Two bond classes and an explicit zero weight.
bonds_saa ==
    [govt_bonds |-> R(50, 100), corp_bonds |-> R(50, 100), private_credit |-> Zero]

\* A weight on an asset class the Block does not know.
cash_saa == [govt_bonds |-> R(50, 100), cash |-> R(50, 100)]

-----------------------------------------------------------------------------
(* Asset instruments as the Block builds them (src/alm/asset.py).          *)

Bond(face_value, coupon_rate, maturity, rating, credit_spread) ==
    [kind |-> "Bond", face_value |-> face_value, coupon_rate |-> coupon_rate,
     maturity |-> maturity, frequency |-> 2, rating |-> rating,
     credit_spread |-> credit_spread]

Mortgage(principal, annual_rate, term) ==
    [kind |-> "Mortgage", principal |-> principal, annual_rate |-> annual_rate,
     term |-> term, frequency |-> 12]

PrivateCredit(face_value, maturity, risk_free_rate, credit_spread, rating) ==
    [kind |-> "PrivateCredit", face_value |-> face_value, maturity |-> maturity,
     risk_free_rate |-> risk_free_rate, credit_spread |-> credit_spread,
     illiquidity_spread |-> R(20, 1000), other_spread |-> R(5, 1000),
     frequency |-> 2, rating |-> rating]

-----------------------------------------------------------------------------
(* The constructor arguments the model draws from.                         *)

None == <<>>

Some(x) == <<x>>

LiabilityTypes == {"SPIA", "WL", "Term", "FIA"}

\* __post_init__ without the check of gender_split.
Block_post_init_type_only(c) == c.liability_type \in LiabilityTypes

\* Block.__post_init__: TRUE when the constructor returns.
Block_post_init(c) ==
    /\ c.liability_type \in LiabilityTypes
    /\ RLe(Zero, c.gender_split) /\ RLe(c.gender_split, One)

\* Ten index rates: one above the cap, one below the floor, the rest zero.
index_rates_10 ==
    [i \in 1..10 |-> IF i = 1 THEN R(8, 100) ELSE IF i = 2 THEN R(-2, 100) ELSE Zero]

Profiles ==
    { [age_range |-> <<60, 61>>, gender_split |-> R(1, 2), seed |-> 1,
       profit_margin |-> R(5, 100), index_rates |-> index_rates_10,
       discount_rate |-> Zero],
      [age_range |-> <<60, 61>>, gender_split |-> R(1, 2), seed |-> 2,
       profit_margin |-> R(5, 100), index_rates |-> index_rates_10,
       discount_rate |-> Zero],
      \* an age range that runs past the end of the mortality table
      [age_range |-> <<61, 62>>, gender_split |-> One, seed |-> 1,
       profit_margin |-> Zero, index_rates |-> index_rates_10,
       discount_rate |-> Zero] }

\* For FIA blocks: too few index rates, and annual discounting at 100 %.
FIAProfiles ==
    { [age_range |-> <<60, 61>>, gender_split |-> Zero, seed |-> 1,
       profit_margin |-> R(5, 100), index_rates |-> <<>>,
       discount_rate |-> Zero],
      [age_range |-> <<60, 61>>, gender_split |-> R(1, 2), seed |-> 1,
       profit_margin |-> R(5, 100), index_rates |-> index_rates_10,
       discount_rate |-> One] }

SAAs == {w \in {default_saa, bonds_saa, cash_saa} : SAA_post_init(w)}

Premiums == {None, Some(R(2400, 1))}

Configs ==
    { c \in
        { [liability_type |-> t, saa |-> w, total_liability_amount |-> R(12000, 1),
           n_policies |-> n, premium |-> p] @@ prof :
             t \in LiabilityTypes, w \in SAAs, n \in 1..MaxPolicies, p \in Premiums,
             prof \in Profiles }
        \cup
        { [liability_type |-> "FIA", saa |-> w, total_liability_amount |-> R(12000, 1),
           n_policies |-> n, premium |-> p] @@ prof :
             w \in SAAs, n \in 1..MaxPolicies, p \in Premiums, prof \in FIAProfiles }
      : Block_post_init(c) }

\* The years reinvest is called with.
Years == {1, 5, 6}

-----------------------------------------------------------------------------
(* Block (src/alm/core.py).  A call is modelled by an operator from the    *)
(* Block b and its fields st = [premium, policies, assets] before the call *)
(* to [st, raised, value]: the fields after it, whether it raised, and the *)
(* value it returned.                                                      *)

BlockIds == {"b1", "b2"}

Returned(st, value) == [st |-> st, raised |-> FALSE, value |-> value]

Raised(st) == [st |-> st, raised |-> TRUE, value |-> <<>>]

\* A generator shared by every Block and never re-seeded: what it yields
\* depends on how many policies have been drawn before.
shared_rng(b) ==
    RandomSeeded(cfg[b].seed + Len(_policies["b1"]) + Len(_policies["b2"]))

\* rng = random.Random(self.seed): a fresh generator on every call.
new_rng(b) == RandomSeeded(cfg[b].seed)

\* The (age, sex) pairs drawn by the loop of generate_policies.
RECURSIVE draw_loop(_, _, _)
draw_loop(c, s, k) ==
    IF k = 0 THEN <<>>
    ELSE <<[age |-> randint(RngStep(s), c.age_range[1], c.age_range[2]),
            sex |-> choices_sex(RngStep(RngStep(s)), c.gender_split)]>>
         \o draw_loop(c, RngStep(RngStep(s)), k - 1)

\* The whole liability amount given to every policy.
per_policy_undivided(c) == c.total_liability_amount

\* per_policy = self.total_liability_amount / self.n_policies
per_policy(c) == RDiv(c.total_liability_amount, R(c.n_policies, 1))

\* The instrument built for one draw, by liability type.
new_policy(c, age, qx) ==
    CASE c.liability_type = "SPIA" ->
            SPIA(per_policy(c), RMul(per_policy(c), R(6, 100)), qx, age)
      [] c.liability_type = "WL" ->
            WL(per_policy(c), RMul(per_policy(c), R(15, 1000)), qx, age)
      [] c.liability_type = "Term" ->
            Term(per_policy(c), RMul(per_policy(c), R(5, 1000)), 20, qx, age)
      [] c.liability_type = "FIA" ->
            FIA(per_policy(c), 10, qx, age)

\* The policies of the loop, one per draw; a policy with qx = <<>> marks a
\* draw whose mortality lookup raised.
policies_for(c, draws) ==
    [i \in 1..Len(draws) |->
        new_policy(c, draws[i].age,
                   qx_from_table(mortality_table, draws[i].age, draws[i].sex))]

\* self._policies = policies; return policies -- reached only when no
\* lookup raised.
store_policies(st, policies) ==
    IF \E i \in 1..Len(policies) : policies[i].qx = <<>>
    THEN Raised(st)
    ELSE Returned([st EXCEPT !.policies = policies], policies)

\* Block.generate_policies
generate_policies_call(b, st) ==
    store_policies(st, policies_for(cfg[b], draw_loop(cfg[b], new_rng(b), cfg[b].n_policies)))

\* if not self._policies: self.generate_policies()
ensure_policies(b, st) ==
    IF st.policies = <<>> THEN generate_policies_call(b, st)
    ELSE Returned(st, st.policies)

\* sum(amount / (1 + r) ** t for t, amount in zip(cf[tcol], cf[col]))
discounted_sum(cf, tcol, col, r) ==
    RSum([i \in 1..Len(cf) |->
             RDiv(cf[i][col], RPow(RAdd(One, r), cf[i][tcol]))])

\* FIA branch: <<>> when the policy's cashflows raise.
fia_pv(cf, discount_rate) ==
    IF cf = <<>> THEN None
    ELSE Some(discounted_sum(cf, "year", "net_cashflow", discount_rate))

\* The liability-side present value of one policy in calculate_premium, at
\* the Block's discount rate and index rates.
policy_pv(policy, discount_rate, index_rates) ==
    CASE policy.kind = "SPIA" ->
            Some(discounted_sum(SPIA_cashflows(policy), "period", "expected_payout",
                                RDiv(discount_rate, R(policy.frequency, 1))))
      [] policy.kind = "FIA" ->
            fia_pv(FIA_cashflows(policy, index_rates), discount_rate)
      [] policy.kind = "WL" ->
            Some(discounted_sum(WL_cashflows(policy), "period", "expected_benefit",
                                RDiv(discount_rate, R(policy.frequency, 1))))
      [] policy.kind = "Term" ->
            Some(discounted_sum(Term_cashflows(policy), "period", "expected_benefit",
                                RDiv(discount_rate, R(policy.frequency, 1))))

\* Every (policy, discount rate, index rates) a Block of Configs can hold,
\* and its present value, computed once: policy_pv is a pure function.
PolicyKeys ==
    UNION { { <<new_policy(c, age, qx_from_table(mortality_table, age, sex)),
                c.discount_rate, c.index_rates>> :
              age \in c.age_range[1]..c.age_range[2], sex \in {"male", "female"} } :
            c \in Configs }

policy_pv_table == [k \in PolicyKeys |-> policy_pv(k[1], k[2], k[3])]

policy_pv_benefits(c, policy) == policy_pv_table[<<policy, c.discount_rate, c.index_rates>>]

\* The present value of the benefits with no profit loading.
premium_without_margin(pv_benefits, profit_margin) == pv_benefits

\* premium = pv_benefits * (1 + profit_margin)
premium_from_pv(pv_benefits, profit_margin) ==
    RMul(pv_benefits, RAdd(One, profit_margin))

\* self.premium = ...; return self.premium
store_premium(st, p) == Returned([st EXCEPT !.premium = Some(p)], p)

\* The loop over the policies and what follows it.
premium_of(c, st, pvs) ==
    IF \E i \in 1..Len(pvs) : pvs[i] = None THEN Raised(st)
    ELSE store_premium(st, premium_from_pv(RSum([i \in 1..Len(pvs) |-> pvs[i][1]]),
                                           c.profit_margin))

premium_after(c, gen) ==
    IF gen.raised THEN Raised(gen.st)
    ELSE premium_of(c, gen.st,
                    [i \in 1..Len(gen.st.policies) |->
                        policy_pv_benefits(c, gen.st.policies[i])])

\* Block.calculate_premium
calculate_premium_call(b, st) == premium_after(cfg[b], ensure_policies(b, st))

\* The premium recomputed whether or not one is set.
ensure_premium_recomputed(b, st) == calculate_premium_call(b, st)

\* if self.premium is None: self.calculate_premium()
ensure_premium(b, st) ==
    IF st.premium = None THEN calculate_premium_call(b, st)
    ELSE Returned(st, st.premium[1])

\* duration_profiles[liability_type]
duration_profiles(liability_type) ==
    CASE liability_type = "SPIA" -> <<5, 10, 20, 30>>
      [] liability_type = "WL"   -> <<5, 10, 20, 30>>
      [] liability_type = "Term" -> <<3, 5, 10>>
      [] liability_type = "FIA"  -> <<3, 5, 7, 10>>

\* One Bond per rating and maturity: face amt * weight / len(maturities).
bond_ladder(amt, dist, maturities, discount_rate) ==
    Concat([i \in 1..Len(dist) |->
        [j \in 1..Len(maturities) |->
            Bond(RDiv(RMul(amt, dist[i][2]), R(Len(maturities), 1)),
                 RAdd(discount_rate, get_spread(dist[i][1], maturities[j])),
                 maturities[j], dist[i][1], get_spread(dist[i][1], maturities[j]))]])

\* One PrivateCredit per rating and maturity.
private_credit_ladder(amt, dist, maturities, discount_rate) ==
    Concat([i \in 1..Len(dist) |->
        [j \in 1..Len(maturities) |->
            PrivateCredit(RDiv(RMul(amt, dist[i][2]), R(Len(maturities), 1)),
                          maturities[j], discount_rate,
                          get_spread(dist[i][1], maturities[j]), dist[i][1])]])

\* The two mortgages of generate_assets: half the allocation each.
mortgage_pair(amt, discount_rate) ==
    << Mortgage(RMul(amt, R(5, 10)), RAdd(discount_rate, get_spread("A", 15)), 15),
       Mortgage(RMul(amt, R(5, 10)), RAdd(discount_rate, get_spread("A", 30)), 30) >>

\* An asset class bought whenever the allocation names it, whatever the amount.
has_allocation_named(alloc, key) == key \in DOMAIN alloc

\* if alloc.get(key, 0) > 0
has_allocation(alloc, key) == RLt(Zero, alloc_get(alloc, key))

\* The positions generate_assets builds from the allocation of the premium.
positions_for(c, alloc, maturities) ==
    (IF has_allocation(alloc, "govt_bonds")
     THEN bond_ladder(alloc["govt_bonds"], GOVT_RATING_DIST, maturities, c.discount_rate)
     ELSE <<>>)
    \o
    (IF has_allocation(alloc, "corp_bonds")
     THEN bond_ladder(alloc["corp_bonds"], CORP_RATING_DIST, maturities, c.discount_rate)
     ELSE <<>>)
    \o
    (IF has_allocation(alloc, "mortgages")
     THEN mortgage_pair(alloc["mortgages"], c.discount_rate)
     ELSE <<>>)
    \o
    (IF has_allocation(alloc, "private_credit")
     THEN private_credit_ladder(alloc["private_credit"], PC_RATING_DIST, <<3, 5>>,
                                c.discount_rate)
     ELSE <<>>)

\* The allocation taken from the liability amount instead of the premium.
initial_assets_from_liability(c, p) ==
    positions_for(c, allocation(c.saa, c.total_liability_amount),
                  duration_profiles(c.liability_type))

initial_assets(c, p) ==
    positions_for(c, allocation(c.saa, p), duration_profiles(c.liability_type))

\* The generated positions added to the stored ones instead of replacing them.
store_assets_appended(st, assets) ==
    Returned([st EXCEPT !.assets = st.assets \o assets], st.assets \o assets)

\* self._assets = assets; return assets
store_assets(st, assets) == Returned([st EXCEPT !.assets = assets], assets)

assets_after(c, prem) ==
    IF prem.raised THEN Raised(prem.st)
    ELSE store_assets(prem.st, initial_assets(c, prem.st.premium[1]))

\* Block.generate_assets
generate_assets_call(b, st) == assets_after(cfg[b], ensure_premium(b, st))

\* The loop of liability_cashflows reads every policy's cashflows.
cashflows_read(c, gen) ==
    IF gen.raised THEN Raised(gen.st)
    ELSE IF \E i \in 1..Len(gen.st.policies) :
                /\ gen.st.policies[i].kind = "FIA"
                /\ FIA_cashflows(gen.st.policies[i], c.index_rates) = <<>>
    THEN Raised(gen.st)
    ELSE Returned(gen.st, <<>>)

\* Block.liability_cashflows: generates the policies when there are none
\* (the returned table is not part of ret).
liability_cashflows_call(b, st) == cashflows_read(cfg[b], ensure_policies(b, st))

\* if not self._assets: self.generate_assets()
ensure_assets(b, st) ==
    IF st.assets = <<>> THEN generate_assets_call(b, st)
    ELSE Returned(st, st.assets)

asset_table(gen) == IF gen.raised THEN Raised(gen.st) ELSE Returned(gen.st, <<>>)

\* Block.asset_cashflows: generates the assets when there are none.
asset_cashflows_call(b, st) == asset_table(ensure_assets(b, st))

\* A position maturing in the year itself counted as matured.
is_matured_inclusive(inst, year) ==
    inst.kind \in {"Bond", "PrivateCredit"} /\ inst.maturity <= year

\* isinstance(inst, (Bond, PrivateCredit)) and inst.maturity < year
is_matured(inst, year) ==
    inst.kind \in {"Bond", "PrivateCredit"} /\ inst.maturity < year

\* Only the positions that carry a maturity kept: the mortgages are lost.
remaining_with_maturity(assets, year) ==
    SelectSeq(assets, LAMBDA inst : inst.kind # "Mortgage" /\ ~is_matured(inst, year))

\* The positions reinvest keeps: mortgages and unmatured bonds, in order.
remaining_assets(assets, year) == SelectSeq(assets, LAMBDA inst : ~is_matured(inst, year))

matured_assets(assets, year) == SelectSeq(assets, LAMBDA inst : is_matured(inst, year))

face_values(positions) == [i \in 1..Len(positions) |-> positions[i].face_value]

\* The face value of the matured positions.
matured_proceeds(assets, year) == RSum(face_values(matured_assets(assets, year)))

\* The replacement bonds bought on a 5- and 10-year ladder.
reinvest_bonds_laddered(amt, dist, discount_rate) ==
    bond_ladder(amt, dist, <<5, 10>>, discount_rate)

\* One 5-year Bond per rating: face amt * weight.
reinvest_bonds(amt, dist, discount_rate) ==
    [i \in 1..Len(dist) |->
        Bond(RMul(amt, dist[i][2]), RAdd(discount_rate, get_spread(dist[i][1], 5)), 5,
             dist[i][1], get_spread(dist[i][1], 5))]

reinvest_private_credit(amt, dist, discount_rate) ==
    [i \in 1..Len(dist) |->
        PrivateCredit(RMul(amt, dist[i][2]), 5, discount_rate,
                      get_spread(dist[i][1], 5), dist[i][1])]

\* The single mortgage reinvest buys with the mortgages allocation.
reinvest_mortgage(amt, discount_rate) ==
    << Mortgage(amt, RAdd(discount_rate, get_spread("A", 15)), 15) >>

\* The positions reinvest buys from the allocation of the proceeds.
purchases_for(c, alloc) ==
    (IF has_allocation(alloc, "govt_bonds")
     THEN reinvest_bonds(alloc["govt_bonds"], GOVT_RATING_DIST, c.discount_rate)
     ELSE <<>>)
    \o
    (IF has_allocation(alloc, "corp_bonds")
     THEN reinvest_bonds(alloc["corp_bonds"], CORP_RATING_DIST, c.discount_rate)
     ELSE <<>>)
    \o
    (IF has_allocation(alloc, "mortgages")
     THEN reinvest_mortgage(alloc["mortgages"], c.discount_rate)
     ELSE <<>>)
    \o
    (IF has_allocation(alloc, "private_credit")
     THEN reinvest_private_credit(alloc["private_credit"], PC_RATING_DIST, c.discount_rate)
     ELSE <<>>)

new_assets(c, proceeds) == purchases_for(c, allocation(c.saa, proceeds))

\* self._assets = remaining + new_assets; return new_assets
store_reinvested(st, remaining, bought) ==
    Returned([st EXCEPT !.assets = remaining \o bought], bought)

reinvest_with(c, st, year, proceeds) ==
    IF RLe(proceeds, Zero) THEN Returned(st, <<>>)
    ELSE store_reinvested(st, remaining_assets(st.assets, year), new_assets(c, proceeds))

\* Block.reinvest
reinvest_call(b, st, year) ==
    reinvest_with(cfg[b], st, year, matured_proceeds(st.assets, year))

-----------------------------------------------------------------------------
(* The state machine.                                                      *)

Fields(b) == [premium |-> premium[b], policies |-> _policies[b], assets |-> _assets[b]]

Call(op, b, year, out) ==
    /\ premium' = [premium EXCEPT ![b] = out.st.premium]
    /\ _policies' = [_policies EXCEPT ![b] = out.st.policies]
    /\ _assets' = [_assets EXCEPT ![b] = out.st.assets]
    /\ ret' = [op |-> op, block |-> b, year |-> year,
               raised |-> out.raised, value |-> out.value]
    /\ UNCHANGED <<cfg, local>>

InitBlocks(c1, c2) ==
    /\ cfg = [b \in BlockIds |-> IF b = "b1" THEN c1 ELSE c2]
    /\ premium = [b \in BlockIds |-> IF b = "b1" THEN c1.premium ELSE c2.premium]
    /\ _policies = [b \in BlockIds |-> <<>>]
    /\ _assets = [b \in BlockIds |-> <<>>]
    /\ purchases = [b \in BlockIds |-> 0]
    /\ ret = [op |-> "init", block |-> "b1", year |-> 0, raised |-> FALSE, value |-> <<>>]
    /\ local = <<>>

Init == \E c \in Configs : InitBlocks(c, c)

calculate_premium(b) ==
    /\ Call("calculate_premium", b, 0, calculate_premium_call(b, Fields(b)))
    /\ UNCHANGED purchases

generate_policies(b) ==
    /\ Call("generate_policies", b, 0, generate_policies_call(b, Fields(b)))
    /\ UNCHANGED purchases

generate_assets(b) ==
    /\ Call("generate_assets", b, 0, generate_assets_call(b, Fields(b)))
    /\ UNCHANGED purchases

liability_cashflows(b) ==
    /\ Call("liability_cashflows", b, 0, liability_cashflows_call(b, Fields(b)))
    /\ UNCHANGED purchases

asset_cashflows(b) ==
    /\ Call("asset_cashflows", b, 0, asset_cashflows_call(b, Fields(b)))
    /\ UNCHANGED purchases

\* A reinvest call that buys counts against MaxReinvest.
reinvest_step(b, year, out) ==
    /\ out.value # <<>> => purchases[b] < MaxReinvest
    /\ Call("reinvest", b, year, out)
    /\ purchases' = [purchases EXCEPT ![b] = IF out.value # <<>> THEN @ + 1 ELSE @]

reinvest(b, year) == reinvest_step(b, year, reinvest_call(b, Fields(b), year))

Next ==
    \/ calculate_premium("b1")
    \/ generate_policies("b1")
    \/ generate_assets("b1")
    \/ liability_cashflows("b1")
    \/ asset_cashflows("b1")
    \/ \E year \in Years : reinvest("b1", year)

Spec == Init /\ [][Next]_vars

\* Two Blocks side by side: Term blocks of MaxPolicies policies that differ
\* at most in the seed, or whose age range runs past the mortality table.
PairConfigs ==
    { c \in Configs : /\ c.liability_type = "Term"
                      /\ c.saa = default_saa
                      /\ c.premium = None
                      /\ c.n_policies = MaxPolicies }

InitPair == \E c1 \in PairConfigs, c2 \in PairConfigs : InitBlocks(c1, c2)

NextPair ==
    \E b \in BlockIds :
        \/ calculate_premium(b)
        \/ generate_policies(b)
        \/ generate_assets(b)
        \/ liability_cashflows(b)
        \/ asset_cashflows(b)
        \/ \E year \in Years : reinvest(b, year)

SpecPair == InitPair /\ [][NextPair]_vars

-----------------------------------------------------------------------------
(* Constructors and module-level functions, one call at a time.  No Block  *)
(* exists at the start; local holds the frame of the call: fn, the         *)
(* arguments, the local variables, and pc, "call" before the body runs and *)
(* "returned" or the name of the exception raised after it.                *)

NoBlocks ==
    /\ cfg = <<>> /\ premium = <<>> /\ _policies = <<>> /\ _assets = <<>>
    /\ purchases = <<>>
    /\ ret = [op |-> "init", block |-> "b1", year |-> 0, raised |-> FALSE, value |-> <<>>]

BlockVars == <<cfg, premium, _policies, _assets, purchases, ret>>

\* Arguments for Block(...): liability types and gender splits inside and
\* outside what __post_init__ accepts.
TypeNames == LiabilityTypes \cup {"Invalid", "spia", "term", ""}

GenderSplits ==
    {R(-1, 2), R(-1, 100), Zero, R(1, 2), One, R(101, 100), R(3, 2)}

BlockArgs ==
    { [liability_type |-> t, saa |-> w, total_liability_amount |-> R(12000, 1),
       n_policies |-> 1, premium |-> None, age_range |-> <<60, 61>>,
       gender_split |-> g, seed |-> 1, profit_margin |-> R(5, 100),
       index_rates |-> index_rates_10, discount_rate |-> Zero] :
      t \in TypeNames, w \in SAAs, g \in GenderSplits }

InitBlockNew ==
    /\ NoBlocks
    /\ \E c \in BlockArgs : local = [fn |-> "Block", args |-> c, pc |-> "call"]

\* Block(...): the dataclass __init__ stores the fields, __post_init__
\* validates them; the object exists for the caller only if it returns.
Block_new ==
    /\ local.fn = "Block" /\ local.pc = "call"
    /\ IF Block_post_init(local.args)
       THEN /\ cfg' = ("b1" :> local.args)
            /\ premium' = ("b1" :> local.args.premium)
            /\ _policies' = ("b1" :> <<>>)
            /\ _assets' = ("b1" :> <<>>)
            /\ purchases' = ("b1" :> 0)
            /\ UNCHANGED ret
            /\ local' = [local EXCEPT !.pc = "returned"]
       ELSE /\ UNCHANGED BlockVars
            /\ local' = [local EXCEPT !.pc = "ValueError"]

NextBlockNew == Block_new

SpecBlockNew == InitBlockNew /\ [][NextBlockNew]_vars

\* Weights for SAA(...): around the tolerance of the sum, the sign and the
\* private-credit cap.
SAAWeightValues ==
    { R(-1, 10), R(-1, 1000000000), Zero, R(1, 10),
      R(100000001, 1000000000), R(100000002, 1000000000),
      R(1, 2), R(899999998, 1000000000), R(899999999, 1000000000), R(9, 10),
      One, R(1000000001, 1000000000), R(1000000002, 1000000000) }

SAAArgs ==
    { [govt_bonds |-> g, private_credit |-> p] :
        g \in SAAWeightValues, p \in SAAWeightValues }
    \cup { [a |-> x, b |-> RSub(One, x)] : x \in SAAWeightValues }
    \cup { [govt_bonds |-> g] : g \in SAAWeightValues }

InitSAANew ==
    /\ NoBlocks
    /\ \E w \in SAAArgs : local = [fn |-> "SAA", args |-> w, pc |-> "call"]

\* SAA(weights): the object exists for the caller only if __post_init__
\* returns.
SAA_new ==
    /\ local.fn = "SAA" /\ local.pc = "call"
    /\ local' = [local EXCEPT
                   !.pc = IF SAA_post_init(local.args) THEN "returned" ELSE "ValueError"]
    /\ UNCHANGED BlockVars

NextSAANew == SAA_new

SpecSAANew == InitSAANew /\ [][NextSAANew]_vars

\* irr (src/alm/core.py): Newton-Raphson on the net present value.  One
\* action per loop iteration; local.r is the rate, local.i the number of
\* iterations completed, local.step the last Newton step.
MaxIter == 2

\* abs(x) of a rational.
RAbs(x) == IF x[1] < 0 THEN RNeg(x) ELSE x

\* abs(x) < 1e-15: a non-zero rational whose denominator fits the integers
\* of the model is at least 2^-31 in magnitude, so only zero is below.
AbsBelow1e15(x) == x[1] = 0

\* npv = sum(cf / (1 + r) ** t for t, cf in enumerate(cashflows))
irr_npv(cashflows, r) ==
    RSum([k \in 1..Len(cashflows) |->
             RDiv(R(cashflows[k], 1), RPow(RAdd(One, r), k - 1))])

\* dnpv = sum(-t * cf / (1 + r) ** (t + 1) for t, cf in enumerate(cashflows))
irr_dnpv(cashflows, r) ==
    RSum([k \in 1..Len(cashflows) |->
             RDiv(R(-(k - 1) * cashflows[k], 1), RPow(RAdd(One, r), k))])

\* The two sums divide by a power of 1 + r: with r = -1 the first term of
\* dnpv already divides by 0.0 ** 1, whatever the cashflow.
irr_divides_by_zero(cashflows, r) == RAdd(One, r) = Zero /\ Len(cashflows) >= 1

\* The frame after the Newton step of one iteration.
irr_stepped(f, step) ==
    IF RLt(RAbs(step), f.tol)
    THEN [f EXCEPT !.r = RSub(f.r, step), !.step = step, !.i = f.i + 1,
                   !.pc = "returned"]
    ELSE [f EXCEPT !.r = RSub(f.r, step), !.step = step, !.i = f.i + 1]

\* The frame after one iteration, given its two sums.
irr_body(f, npv, dnpv) ==
    IF AbsBelow1e15(dnpv) THEN [f EXCEPT !.i = f.i + 1, !.pc = "ValueError"]
    ELSE irr_stepped(f, RDiv(npv, dnpv))

irr_iteration(f) ==
    IF irr_divides_by_zero(f.cashflows, f.r)
    THEN [f EXCEPT !.i = f.i + 1, !.pc = "ZeroDivisionError"]
    ELSE irr_body(f, irr_npv(f.cashflows, f.r), irr_dnpv(f.cashflows, f.r))

IrrCashflows ==
    { <<>>, <<5>>, <<-1, 1>>, <<1, 1>>, <<1, 2>>, <<-1, 2>>, <<-2, 1, 1>>,
      <<2, 1>>, <<0, 0>> }

IrrGuesses == {R(-2, 1), R(-1, 1), R(-1, 2), Zero, One}

IrrTols == {One, R(1, 16)}

InitIrr ==
    /\ NoBlocks
    /\ \E cashflows \in IrrCashflows, guess \in IrrGuesses, tol \in IrrTols,
          max_iter \in 0..MaxIter :
          local = [fn |-> "irr", cashflows |-> cashflows, guess |-> guess,
                   tol |-> tol, max_iter |-> max_iter,
                   r |-> guess, step |-> Zero, i |-> 0, pc |-> "loop"]

\* One pass through the body of "for _ in range(max_iter)".
irr_iterate ==
    /\ local.fn = "irr" /\ local.pc = "loop" /\ local.i < local.max_iter
    /\ local' = irr_iteration(local)
    /\ UNCHANGED BlockVars

\* The loop is exhausted: raise ValueError.
irr_exhausted ==
    /\ local.fn = "irr" /\ local.pc = "loop" /\ local.i = local.max_iter
    /\ local' = [local EXCEPT !.pc = "ValueError"]
    /\ UNCHANGED BlockVars

NextIrr == irr_iterate \/ irr_exhausted

SpecIrr == InitIrr /\ [][NextIrr]_vars

\* immunize (src/alm/core.py): the 2x2 system solved by Cramer's rule.
immunize_det(dd_per_unit_1, dc_per_unit_1, dd_per_unit_2, dc_per_unit_2) ==
    RSub(RMul(dd_per_unit_1, dc_per_unit_2), RMul(dd_per_unit_2, dc_per_unit_1))

\* The swapped numerator of n2: dc_gap * dd2 in place of dd1 * dc_gap.
immunize_solution_swapped(dd_gap, dc_gap, dd_per_unit_1, dc_per_unit_1, dd_per_unit_2, dc_per_unit_2, det) ==
    << RDiv(RSub(RMul(dd_gap, dc_per_unit_2), RMul(dc_gap, dd_per_unit_2)), det),
       RDiv(RSub(RMul(dd_per_unit_2, dc_gap), RMul(dc_per_unit_1, dd_gap)), det) >>

\* n1, n2 for a determinant that passed the test.
immunize_solution(dd_gap, dc_gap, dd_per_unit_1, dc_per_unit_1, dd_per_unit_2, dc_per_unit_2, det) ==
    << RDiv(RSub(RMul(dd_gap, dc_per_unit_2), RMul(dc_gap, dd_per_unit_2)), det),
       RDiv(RSub(RMul(dd_per_unit_1, dc_gap), RMul(dc_per_unit_1, dd_gap)), det) >>

immunize_result(dd_gap, dc_gap, dd_per_unit_1, dc_per_unit_1, dd_per_unit_2, dc_per_unit_2, det) ==
    IF AbsBelow1e15(det) THEN [pc |-> "ValueError", value |-> <<>>]
    ELSE [pc |-> "returned",
          value |-> immunize_solution(dd_gap, dc_gap, dd_per_unit_1, dc_per_unit_1,
                                      dd_per_unit_2, dc_per_unit_2, det)]

immunize(dd_gap, dc_gap, dd_per_unit_1, dc_per_unit_1, dd_per_unit_2, dc_per_unit_2) ==
    immunize_result(dd_gap, dc_gap, dd_per_unit_1, dc_per_unit_1,
                    dd_per_unit_2, dc_per_unit_2,
                    immunize_det(dd_per_unit_1, dc_per_unit_1,
                                 dd_per_unit_2, dc_per_unit_2))

ImmunizeGaps ==
    { <<Zero, Zero>>, <<R(500, 1), R(80000, 1)>>, <<R(-3, 1), R(1, 2)>>,
      <<Zero, R(7, 1)>> }

ImmunizeSensitivities == {R(-1, 1), Zero, R(1, 2), R(2, 1), R(4, 1)}

InitImmunize ==
    /\ NoBlocks
    /\ \E gaps \in ImmunizeGaps,
          dd1 \in ImmunizeSensitivities, dc1 \in ImmunizeSensitivities,
          dd2 \in ImmunizeSensitivities, dc2 \in ImmunizeSensitivities :
          local = [fn |-> "immunize", dd_gap |-> gaps[1], dc_gap |-> gaps[2],
                   dd_per_unit_1 |-> dd1, dc_per_unit_1 |-> dc1,
                   dd_per_unit_2 |-> dd2, dc_per_unit_2 |-> dc2,
                   pc |-> "call", value |-> <<>>]

immunize_call ==
    /\ local.fn = "immunize" /\ local.pc = "call"
    /\ local' = [local EXCEPT
                   !.pc = immunize(local.dd_gap, local.dc_gap,
                                   local.dd_per_unit_1, local.dc_per_unit_1,
                                   local.dd_per_unit_2, local.dc_per_unit_2).pc,
                   !.value = immunize(local.dd_gap, local.dc_gap,
                                      local.dd_per_unit_1, local.dc_per_unit_1,
                                      local.dd_per_unit_2, local.dc_per_unit_2).value]
    /\ UNCHANGED BlockVars

NextImmunize == immunize_call

SpecImmunize == InitImmunize /\ [][NextImmunize]_vars

\* InterestRateSwap (src/alm/core.py): a swap is a record of its fields.
InterestRateSwap(notional_, fixed_rate, tenor, frequency, pay_fixed) ==
    [notional |-> notional_, fixed_rate |-> fixed_rate, tenor |-> tenor,
     frequency |-> frequency, pay_fixed |-> pay_fixed]

n_periods(swap) == swap.tenor * swap.frequency

\* A swap that takes the payer's sign whatever pay_fixed says.
swap_sign_payer(swap) == R(-1, 1)

swap_sign(swap) == IF swap.pay_fixed THEN R(-1, 1) ELSE One

\* What a method call produced: a value, or the exception it raised.
SwapValue(v) == [raised |-> "none", value |-> v]

SwapRaised(e) == [raised |-> e, value |-> <<>>]

SwapPending == [raised |-> "pending", value |-> <<>>]

swap_row(swap, floating_rates, t, fixed_pmt) ==
    [period |-> t,
     year |-> Round6(R(t, swap.frequency)),
     fixed_leg |-> fixed_pmt,
     floating_leg |-> RDiv(RMul(swap.notional, floating_rates[t]),
                           R(swap.frequency, 1)),
     net_cashflow |->
        RMul(swap_sign(swap),
             RSub(fixed_pmt,
                  RDiv(RMul(swap.notional, floating_rates[t]),
                       R(swap.frequency, 1))))]

\* cashflows: floating_rates[t - 1] fails on a sequence shorter than n_periods.
swap_cashflows(swap, floating_rates) ==
    IF Len(floating_rates) < n_periods(swap) THEN SwapRaised("IndexError")
    ELSE SwapValue([t \in 1..n_periods(swap) |->
            swap_row(swap, floating_rates, t,
                     RDiv(RMul(swap.notional, swap.fixed_rate),
                          R(swap.frequency, 1)))])

swap_discounted(cf, r) ==
    RSum([t \in 1..Len(cf) |->
            RDiv(cf[t].net_cashflow, RPow(RAdd(One, r), cf[t].period))])

\* present_value: ncf / (1 + r) ** t divides by zero when 1 + r = 0.
swap_pv_of(cf, r) ==
    IF cf.raised # "none" THEN cf
    ELSE IF Len(cf.value) > 0 /\ RAdd(One, r) = Zero
         THEN SwapRaised("ZeroDivisionError")
    ELSE SwapValue(swap_discounted(cf.value, r))

swap_present_value(swap, floating_rates, discount_rate) ==
    swap_pv_of(swap_cashflows(swap, floating_rates),
               RDiv(discount_rate, R(swap.frequency, 1)))

bump == R(1, 10000)

floats_up(floating_rates) ==
    [i \in 1..Len(floating_rates) |-> RAdd(floating_rates[i], bump)]

floats_down(floating_rates) ==
    [i \in 1..Len(floating_rates) |-> RSub(floating_rates[i], bump)]

swap_dv01_of(pv_down, pv_up) ==
    IF pv_down.raised # "none" THEN pv_down
    ELSE IF pv_up.raised # "none" THEN pv_up
    ELSE SwapValue(RDiv(RSub(pv_down.value, pv_up.value), R(2, 1)))

swap_dv01(swap, floating_rates, discount_rate) ==
    swap_dv01_of(
        swap_present_value(swap, floats_down(floating_rates),
                           RSub(discount_rate, bump)),
        swap_present_value(swap, floats_up(floating_rates),
                           RAdd(discount_rate, bump)))

\* The callers: a pay-fixed and a receive-fixed swap with identical terms,
\* one floating-rate sequence and one discount rate, and the methods called.
MaxTenor == 2

MaxFrequency == 2

SwapNotionals == {One, R(100, 1)}

SwapFixedRates == {Zero, R(1, 20)}

SwapFloatingRates ==
    { <<>>, <<R(3, 100)>>, <<R(1, 20), R(1, 10)>>,
      <<Zero, R(1, 20), R(1, 10), R(3, 100)>> }

SwapDiscountRates == {R(-2, 1), Zero, R(1, 20)}

SwapMethods == {"cashflows", "present_value", "dv01"}

\* dv01 is called on swaps of at most one period.
SwapCalls(tenor, frequency) ==
    IF tenor * frequency <= 1 THEN {SwapMethods}
    ELSE {SwapMethods \ {"dv01"}}

InitSwap ==
    /\ NoBlocks
    /\ \E notional_ \in SwapNotionals, fixed_rate \in SwapFixedRates,
          tenor \in 0..MaxTenor, frequency \in 1..MaxFrequency,
          floating_rates \in SwapFloatingRates,
          discount_rate \in SwapDiscountRates :
       \E calls \in SwapCalls(tenor, frequency) :
          local = [fn |-> "swap",
                   payer |-> InterestRateSwap(notional_, fixed_rate, tenor,
                                              frequency, TRUE),
                   receiver |-> InterestRateSwap(notional_, fixed_rate, tenor,
                                                 frequency, FALSE),
                   floating_rates |-> floating_rates,
                   discount_rate |-> discount_rate,
                   calls |-> calls,
                   cashflows |-> <<SwapPending, SwapPending>>,
                   present_value |-> <<SwapPending, SwapPending>>,
                   dv01 |-> <<SwapPending, SwapPending>>]

swap_cashflows_call ==
    /\ local.fn = "swap" /\ "cashflows" \in local.calls
    /\ local.cashflows[1] = SwapPending
    /\ local' = [local EXCEPT !.cashflows =
                   << swap_cashflows(local.payer, local.floating_rates),
                      swap_cashflows(local.receiver, local.floating_rates) >>]
    /\ UNCHANGED BlockVars

swap_present_value_call ==
    /\ local.fn = "swap" /\ "present_value" \in local.calls
    /\ local.present_value[1] = SwapPending
    /\ local' = [local EXCEPT !.present_value =
                   << swap_present_value(local.payer, local.floating_rates,
                                         local.discount_rate),
                      swap_present_value(local.receiver, local.floating_rates,
                                         local.discount_rate) >>]
    /\ UNCHANGED BlockVars

swap_dv01_call ==
    /\ local.fn = "swap" /\ "dv01" \in local.calls
    /\ local.dv01[1] = SwapPending
    /\ local' = [local EXCEPT !.dv01 =
                   << swap_dv01(local.payer, local.floating_rates,
                                local.discount_rate),
                      swap_dv01(local.receiver, local.floating_rates,
                                local.discount_rate) >>]
    /\ UNCHANGED BlockVars

NextSwap == swap_cashflows_call \/ swap_present_value_call \/ swap_dv01_call

SpecSwap == InitSwap /\ [][NextSwap]_vars

\* _survival_prob (src/alm/liability.py) called by a loop over times:
\* the frame holds qx, the times asked for and the values returned so far.
MaxQxLen == 3

QxValues == {Zero, R(1, 2), One, R(3, 2)}

RECURSIVE QxVectors(_)
QxVectors(n) ==
    IF n = 0 THEN { <<>> }
    ELSE QxVectors(n - 1)
         \cup { Append(qx, q) : qx \in { v \in QxVectors(n - 1) : Len(v) = n - 1 },
                                q \in QxValues }

\* Quarter-year times from 0 to one year past the end of the longest qx.
SurvivalTimes == { R(k, 4) : k \in 0..(4 * (MaxQxLen + 1)) }

InitSurvival ==
    /\ NoBlocks
    /\ \E qx \in QxVectors(MaxQxLen), t \in SurvivalTimes, u \in SurvivalTimes :
          /\ RLe(t, u)
          /\ local = [fn |-> "_survival_prob", qx |-> qx, times |-> <<t, u>>,
                      sp |-> <<>>]

_survival_prob_call ==
    /\ local.fn = "_survival_prob"
    /\ Len(local.sp) < Len(local.times)
    /\ local' = [local EXCEPT !.sp =
                   Append(local.sp,
                          _survival_prob(local.qx,
                                         local.times[Len(local.sp) + 1]))]
    /\ UNCHANGED BlockVars

NextSurvival == _survival_prob_call

SpecSurvival == InitSurvival /\ [][NextSurvival]_vars

\* SPIA constructed directly, with frequency and certain_period given by
\* keyword, and its cashflows method called once.
MaxCertain == 2

SPIAPayouts == {R(-12, 1), Zero, R(12, 1), R(600, 1)}

SPIAFrequencies == {1, 4, 12}

InitSPIA ==
    /\ NoBlocks
    /\ \E annual_payout \in SPIAPayouts, qx \in QxVectors(MaxQxLen),
          frequency \in SPIAFrequencies, certain_period \in 0..MaxCertain :
          local = [fn |-> "SPIA.cashflows",
                   self |-> [SPIA(R(10000, 1), annual_payout, qx, None)
                               EXCEPT !.frequency = frequency,
                                      !.certain_period = certain_period],
                   pc |-> "call", cashflows |-> <<>>]

SPIA_cashflows_call ==
    /\ local.fn = "SPIA.cashflows" /\ local.pc = "call"
    /\ local' = [local EXCEPT !.pc = "returned",
                              !.cashflows = SPIA_cashflows(local.self)]
    /\ UNCHANGED BlockVars

NextSPIA == SPIA_cashflows_call

SpecSPIA == InitSPIA /\ [][NextSPIA]_vars

\* A Term and a WL constructed from the same face value, annual premium, qx
\* and frequency, each with its cashflows method called once.
MaxTerm == 4

LifeFaceValues == {R(1000, 1), R(250, 1)}

LifePremiums == {Zero, R(12, 1)}

LifeFrequencies == {1, 4, 12}

InitTerm ==
    /\ NoBlocks
    /\ \E face_value \in LifeFaceValues, annual_premium \in LifePremiums,
          term \in 0..MaxTerm, qx \in QxVectors(MaxQxLen),
          frequency \in LifeFrequencies :
          local = [fn |-> "Term.cashflows",
                   term |-> [Term(face_value, annual_premium, term, qx, None)
                               EXCEPT !.frequency = frequency],
                   wl |-> [WL(face_value, annual_premium, qx, None)
                             EXCEPT !.frequency = frequency],
                   called |-> {},
                   term_cashflows |-> <<>>,
                   wl_cashflows |-> <<>>]

Term_cashflows_call ==
    /\ local.fn = "Term.cashflows" /\ "Term" \notin local.called
    /\ local' = [local EXCEPT !.called = @ \cup {"Term"},
                              !.term_cashflows = Term_cashflows(local.term)]
    /\ UNCHANGED BlockVars

WL_cashflows_call ==
    /\ local.fn = "Term.cashflows" /\ "WL" \notin local.called
    /\ local' = [local EXCEPT !.called = @ \cup {"WL"},
                              !.wl_cashflows = WL_cashflows(local.wl)]
    /\ UNCHANGED BlockVars

NextTerm == Term_cashflows_call \/ WL_cashflows_call

SpecTerm == InitTerm /\ [][NextTerm]_vars

\* A FIA constructed directly, with floor, cap and participation rate given
\* by keyword, and its cashflows method called once with a list of index rates.
FIACrediting ==
    { [floor |-> Zero, cap |-> R(6, 100), participation_rate |-> One],
      [floor |-> R(1, 100), cap |-> R(1, 20), participation_rate |-> R(1, 2)],
      [floor |-> R(-1, 10), cap |-> R(1, 10), participation_rate |-> R(2, 1)] }

FIAIndexRates ==
    { <<>>, <<R(1, 10)>>, <<R(-1, 20), R(1, 50), R(1, 10)>>,
      <<R(1, 25), R(1, 25), R(-1, 5), R(1, 25)>> }

FIAPremiums == {R(1000, 1), R(100, 1)}

InitFIA ==
    /\ NoBlocks
    /\ \E premium_ \in FIAPremiums, term \in 0..MaxTerm,
          qx \in QxVectors(MaxQxLen), crediting \in FIACrediting,
          index_rates \in FIAIndexRates :
          local = [fn |-> "FIA.cashflows",
                   self |-> [FIA(premium_, term, qx, None)
                               EXCEPT !.floor = crediting.floor,
                                      !.cap = crediting.cap,
                                      !.participation_rate =
                                          crediting.participation_rate],
                   index_rates |-> index_rates,
                   pc |-> "call", cashflows |-> <<>>]

FIA_cashflows_call ==
    /\ local.fn = "FIA.cashflows" /\ local.pc = "call"
    /\ local' = [local EXCEPT
                   !.pc = IF Len(local.index_rates) < local.self.term
                          THEN "IndexError" ELSE "returned",
                   !.cashflows = FIA_cashflows(local.self, local.index_rates)]
    /\ UNCHANGED BlockVars

NextFIA == FIA_cashflows_call

SpecFIA == InitFIA /\ [][NextFIA]_vars

\* Asset methods (src/alm/asset.py). A call produces a value or the exception
\* it raised, together with the warnings it logged on the way.
Result(v, warned) == [raised |-> "none", value |-> v, warned |-> warned]

Failure(e, warned) == [raised |-> e, value |-> <<>>, warned |-> warned]

NotCalled == [raised |-> "not called", value |-> <<>>, warned |-> {}]

\* [c] * n zipped (strict) with [0.0] * (n - 1) + [face_value]: the lists
\* differ in length when n < 1, and zip then raises ValueError.
bullet_cashflows(face_value, c, n) ==
    IF n < 1 THEN Failure("ValueError", {})
    ELSE Result([t \in 1..n |->
                   [period |-> t, coupon |-> c,
                    principal |-> IF t = n THEN face_value ELSE Zero,
                    total |-> IF t = n THEN RAdd(c, face_value) ELSE c]], {})

\* sum(amount / (1 + r) ** t): divides by zero when 1 + r = 0.
discounted(cf, col, r) ==
    RSum([t \in 1..Len(cf) |-> RDiv(cf[t][col], RPow(RAdd(One, r), cf[t].period))])

\* sum((t / frequency) * amount / (1 + r) ** t)
time_weighted(cf, col, r, frequency) ==
    RSum([t \in 1..Len(cf) |->
            RDiv(RMul(R(cf[t].period, frequency), cf[t][col]),
                 RPow(RAdd(One, r), cf[t].period))])

\* The tail of present_value: the sum, then the warning on a negative value.
pv_of(cf, col, r, label) ==
    IF cf.raised # "none" THEN cf
    ELSE IF Len(cf.value) > 0 /\ RAdd(One, r) = Zero
         THEN Failure("ZeroDivisionError", {})
    ELSE Result(discounted(cf.value, col, r),
                IF RLt(discounted(cf.value, col, r), Zero) THEN {label} ELSE {})

\* The tail of Bond.duration and Mortgage.duration: weighted / pv, then the
\* warning on a value outside [0, limit].
duration_checked(cf, pv, col, r, frequency, limit, label) ==
    IF cf.raised # "none" THEN cf
    ELSE IF pv.raised # "none" THEN pv
    ELSE IF pv.value = Zero THEN Failure("ZeroDivisionError", pv.warned)
    ELSE Result(RDiv(time_weighted(cf.value, col, r, frequency), pv.value),
                pv.warned \cup
                   (IF \/ RLt(RDiv(time_weighted(cf.value, col, r, frequency),
                                   pv.value), Zero)
                       \/ RLt(R(limit, 1),
                              RDiv(time_weighted(cf.value, col, r, frequency),
                                   pv.value))
                    THEN {label} ELSE {}))

\* The tail of PrivateCredit.duration: weighted / pv, returned as it is.
duration_unchecked(cf, pv, col, r, frequency) ==
    IF cf.raised # "none" THEN cf
    ELSE IF pv.raised # "none" THEN pv
    ELSE IF pv.value = Zero THEN Failure("ZeroDivisionError", pv.warned)
    ELSE Result(RDiv(time_weighted(cf.value, col, r, frequency), pv.value),
                pv.warned)

Bond_coupon(self) ==
    RDiv(RMul(self.face_value, self.coupon_rate), R(self.frequency, 1))

\* A bond schedule that repays the principal in every period.
Bond_cashflows_amortizing(self) ==
    IF self.maturity * self.frequency < 1 THEN Failure("ValueError", {})
    ELSE Result([t \in 1..(self.maturity * self.frequency) |->
                   [period |-> t, coupon |-> Bond_coupon(self),
                    principal |-> self.face_value,
                    total |-> RAdd(Bond_coupon(self), self.face_value)]], {})

Bond_cashflows(self) ==
    bullet_cashflows(self.face_value, Bond_coupon(self),
                     self.maturity * self.frequency)

Bond_present_value(self, discount_rate) ==
    pv_of(Bond_cashflows(self), "total",
          RDiv(discount_rate, R(self.frequency, 1)), "Bond PV is negative")

Bond_duration(self, discount_rate) ==
    duration_checked(Bond_cashflows(self),
                     Bond_present_value(self, discount_rate), "total",
                     RDiv(discount_rate, R(self.frequency, 1)),
                     self.frequency, self.maturity,
                     "Bond duration outside expected range")

total_yield(self) ==
    RAdd(RAdd(RAdd(self.risk_free_rate, self.credit_spread),
              self.illiquidity_spread), self.other_spread)

PrivateCredit_coupon(self) ==
    RDiv(RMul(self.face_value, total_yield(self)), R(self.frequency, 1))

PrivateCredit_cashflows(self) ==
    bullet_cashflows(self.face_value, PrivateCredit_coupon(self),
                     self.maturity * self.frequency)

\* discount_rate None stands for the default, the risk-free rate.
PrivateCredit_rate(self, discount_rate) ==
    IF discount_rate = None THEN self.risk_free_rate ELSE discount_rate

PrivateCredit_present_value(self, discount_rate) ==
    pv_of(PrivateCredit_cashflows(self), "total",
          RDiv(PrivateCredit_rate(self, discount_rate), R(self.frequency, 1)),
          "PrivateCredit PV is negative")

PrivateCredit_duration(self, discount_rate) ==
    duration_unchecked(
        PrivateCredit_cashflows(self),
        PrivateCredit_present_value(self, PrivateCredit_rate(self, discount_rate)),
        "total",
        RDiv(PrivateCredit_rate(self, discount_rate), R(self.frequency, 1)),
        self.frequency)

periodic_rate(self) == RDiv(self.annual_rate, R(self.frequency, 1))

\* (1 + r) ** n for the mortgage's own rate.
growth(self, n) == RPow(RAdd(One, periodic_rate(self)), n)

\* Mortgage.payment: the denominator (1 + r) ** n - 1 vanishes for r = 0,
\* for n = 0, and for r = -2 with an even n.
Mortgage_payment(self) ==
    IF growth(self, self.term * self.frequency) = One
    THEN Failure("ZeroDivisionError", {})
    ELSE Result(RDiv(RMul(RMul(self.principal, periodic_rate(self)),
                          growth(self, self.term * self.frequency)),
                     RSub(growth(self, self.term * self.frequency), One)), {})

Mortgage_balance_at(self, period) ==
    IF growth(self, self.term * self.frequency) = One
    THEN Failure("ZeroDivisionError", {})
    ELSE Result(RDiv(RMul(self.principal,
                          RSub(growth(self, self.term * self.frequency),
                               growth(self, period))),
                     RSub(growth(self, self.term * self.frequency), One)), {})

\* A pass that pays interest only: the balance is never reduced.
amortize_step_interest_only(self, pmt, loop) ==
    [balance |-> loop.balance,
     rows |-> Append(loop.rows,
                [period |-> Len(loop.rows) + 1, payment |-> pmt,
                 interest |-> RMul(loop.balance, periodic_rate(self)),
                 principal |-> Zero,
                 balance |-> RMax(loop.balance, Zero)])]

\* One pass of the loop of Mortgage.cashflows: the row appended and the
\* balance carried to the next pass.
amortize_step(self, pmt, loop) ==
    [balance |-> RSub(loop.balance,
                      RSub(pmt, RMul(loop.balance, periodic_rate(self)))),
     rows |-> Append(loop.rows,
                [period |-> Len(loop.rows) + 1, payment |-> pmt,
                 interest |-> RMul(loop.balance, periodic_rate(self)),
                 principal |-> RSub(pmt, RMul(loop.balance, periodic_rate(self))),
                 balance |-> RMax(RSub(loop.balance,
                                       RSub(pmt, RMul(loop.balance,
                                                      periodic_rate(self)))),
                                  Zero)])]

\* for t in range(1, n_periods + 1)
RECURSIVE amortize_loop(_, _, _)
amortize_loop(self, pmt, loop) ==
    IF Len(loop.rows) >= self.term * self.frequency THEN loop
    ELSE amortize_loop(self, pmt, amortize_step(self, pmt, loop))

Mortgage_rows(self, pmt) ==
    amortize_loop(self, pmt, [balance |-> self.principal, rows |-> <<>>]).rows

Mortgage_cashflows_of(self, pmt) ==
    IF pmt.raised # "none" THEN pmt ELSE Result(Mortgage_rows(self, pmt.value), {})

Mortgage_cashflows(self) == Mortgage_cashflows_of(self, Mortgage_payment(self))

Mortgage_present_value(self, discount_rate) ==
    pv_of(Mortgage_cashflows(self), "payment",
          RDiv(discount_rate, R(self.frequency, 1)), "Mortgage PV is negative")

Mortgage_duration(self, discount_rate) ==
    duration_checked(Mortgage_cashflows(self),
                     Mortgage_present_value(self, discount_rate), "payment",
                     RDiv(discount_rate, R(self.frequency, 1)),
                     self.frequency, self.term,
                     "Mortgage duration outside expected range")

\* Assets constructed directly and priced: present_value and duration are
\* each called once with the same discount rate. Rates are multiples of the
\* payment frequency, so that the periodic rates are simple fractions.
MaxMaturity == 3

AssetFrequencies == {1, 2}

PerPeriod(k, frequency) == RMul(k, R(frequency, 1))

PricedBonds ==
    { [Bond(R(100, 1), PerPeriod(k, frequency), maturity, None, Zero)
         EXCEPT !.frequency = frequency] :
        k \in {R(-1, 1), R(-1, 2), Zero, R(1, 4), One}, maturity \in 0..MaxMaturity,
        frequency \in AssetFrequencies }

PricedMortgages ==
    { [Mortgage(principal, PerPeriod(k, frequency), term)
         EXCEPT !.frequency = frequency] :
        principal \in {R(100, 1), R(-100, 1)}, k \in {Zero, R(1, 2), One},
        term \in 0..MaxMaturity, frequency \in AssetFrequencies }

PricedPrivateCredits ==
    { [PrivateCredit(R(100, 1), maturity, PerPeriod(k, frequency),
                     PerPeriod(s, frequency), None)
         EXCEPT !.frequency = frequency, !.illiquidity_spread = Zero,
                !.other_spread = Zero] :
        k \in {Zero, R(1, 4)}, s \in {R(-1, 4), Zero, R(1, 4)},
        maturity \in 0..MaxMaturity, frequency \in AssetFrequencies }

\* The discount rates a caller passes for an asset.
DiscountRates(self) ==
    { PerPeriod(R(k, 1), self.frequency) : k \in -2..1 }
    \cup (IF self.kind = "Bond" THEN {self.coupon_rate} ELSE {})
    \cup (IF self.kind = "PrivateCredit" THEN {None} ELSE {})

InitAsset ==
    /\ NoBlocks
    /\ \E self \in PricedBonds \cup PricedMortgages \cup PricedPrivateCredits :
       \E discount_rate \in DiscountRates(self) :
          local = [fn |-> "asset", self |-> self,
                   discount_rate |-> discount_rate,
                   present_value |-> NotCalled, duration |-> NotCalled]

Bond_present_value_call ==
    /\ local.fn = "asset" /\ local.self.kind = "Bond"
    /\ local.present_value = NotCalled
    /\ local' = [local EXCEPT !.present_value =
                   Bond_present_value(local.self, local.discount_rate)]
    /\ UNCHANGED BlockVars

Bond_duration_call ==
    /\ local.fn = "asset" /\ local.self.kind = "Bond"
    /\ local.duration = NotCalled
    /\ local' = [local EXCEPT !.duration =
                   Bond_duration(local.self, local.discount_rate)]
    /\ UNCHANGED BlockVars

Mortgage_present_value_call ==
    /\ local.fn = "asset" /\ local.self.kind = "Mortgage"
    /\ local.present_value = NotCalled
    /\ local' = [local EXCEPT !.present_value =
                   Mortgage_present_value(local.self, local.discount_rate)]
    /\ UNCHANGED BlockVars

Mortgage_duration_call ==
    /\ local.fn = "asset" /\ local.self.kind = "Mortgage"
    /\ local.duration = NotCalled
    /\ local' = [local EXCEPT !.duration =
                   Mortgage_duration(local.self, local.discount_rate)]
    /\ UNCHANGED BlockVars

PrivateCredit_present_value_call ==
    /\ local.fn = "asset" /\ local.self.kind = "PrivateCredit"
    /\ local.present_value = NotCalled
    /\ local' = [local EXCEPT !.present_value =
                   PrivateCredit_present_value(local.self, local.discount_rate)]
    /\ UNCHANGED BlockVars

PrivateCredit_duration_call ==
    /\ local.fn = "asset" /\ local.self.kind = "PrivateCredit"
    /\ local.duration = NotCalled
    /\ local' = [local EXCEPT !.duration =
                   PrivateCredit_duration(local.self, local.discount_rate)]
    /\ UNCHANGED BlockVars

NextAsset ==
    \/ Bond_present_value_call \/ Bond_duration_call
    \/ Mortgage_present_value_call \/ Mortgage_duration_call
    \/ PrivateCredit_present_value_call \/ PrivateCredit_duration_call

SpecAsset == InitAsset /\ [][NextAsset]_vars

\* A mortgage whose schedule is generated once and whose closed-form balance
\* is asked for period 1, 2, ... in turn.
InitMortgage ==
    /\ NoBlocks
    /\ \E self \in PricedMortgages :
          local = [fn |-> "Mortgage", self |-> self,
                   cashflows |-> NotCalled, balance_at |-> <<>>]

Mortgage_cashflows_call ==
    /\ local.fn = "Mortgage" /\ local.cashflows = NotCalled
    /\ local' = [local EXCEPT !.cashflows = Mortgage_cashflows(local.self)]
    /\ UNCHANGED BlockVars

Mortgage_balance_at_call ==
    /\ local.fn = "Mortgage"
    /\ Len(local.balance_at) < local.self.term * local.self.frequency
    /\ local' = [local EXCEPT !.balance_at =
                   Append(@, Mortgage_balance_at(local.self, Len(@) + 1))]
    /\ UNCHANGED BlockVars

NextMortgage == Mortgage_cashflows_call \/ Mortgage_balance_at_call

SpecMortgage == InitMortgage /\ [][NextMortgage]_vars

\* The year-indexed cashflow tables of Block.liability_cashflows and
\* Block.asset_cashflows (src/alm/core.py). An amount is a sum of money plus
\* a bag of asset payments left unevaluated: the per-period coupon and the
\* face value of a Bond or PrivateCredit, the level payment of a Mortgage.
\* Each is one unknown per asset, the same in every period.
Amount(cash, payments) == [cash |-> cash, payments |-> payments]

Cash(x) == Amount(x, EmptyBag)

Payment(column, inst) == Amount(Zero, SetToBag({<<column, inst>>}))

AAdd(a, b) == Amount(RAdd(a.cash, b.cash), a.payments (+) b.payments)

\* The sum of s[lo..hi], split in halves to keep the recursion shallow.
RECURSIVE ASumRange(_, _, _)
ASumRange(s, lo, hi) ==
    IF lo > hi THEN Cash(Zero)
    ELSE IF lo = hi THEN s[lo]
    ELSE AAdd(ASumRange(s, lo, (lo + hi) \div 2),
              ASumRange(s, (lo + hi) \div 2 + 1, hi))

ASum(s) == ASumRange(s, 1, Len(s))

\* The year column rounded down instead of up.
year_floor(year) == year[1] \div year[2]

\* pl.col("year").cast(pl.Float64).ceil().cast(pl.Int32)
year_ceil(year) == -((-year[1]) \div year[2])

\* cf.select("year", <native column>.alias("cashflow")) for one policy;
\* <<>> stands for the exception raised by the policy's cashflows.
policy_rows(policy, index_rates) ==
    IF policy.kind = "FIA"
    THEN [i \in DOMAIN FIA_cashflows(policy, index_rates) |->
            [year |-> R(FIA_cashflows(policy, index_rates)[i].year, 1),
             cashflow |-> Cash(FIA_cashflows(policy, index_rates)[i].net_cashflow)]]
    ELSE IF policy.kind = "SPIA"
    THEN [i \in DOMAIN SPIA_cashflows(policy) |->
            [year |-> SPIA_cashflows(policy)[i].year,
             cashflow |-> Cash(SPIA_cashflows(policy)[i].expected_payout)]]
    ELSE IF policy.kind = "WL"
    THEN [i \in DOMAIN WL_cashflows(policy) |->
            [year |-> WL_cashflows(policy)[i].year,
             cashflow |-> Cash(WL_cashflows(policy)[i].expected_benefit)]]
    ELSE [i \in DOMAIN Term_cashflows(policy) |->
            [year |-> Term_cashflows(policy)[i].year,
             cashflow |-> Cash(Term_cashflows(policy)[i].expected_benefit)]]

\* Mortgage.payment divides by (1 + r) ** n - 1, which is zero for r = 0,
\* for n = 0, and for r = -2 with an even n.
payment_defined(inst) ==
    /\ inst.annual_rate # Zero
    /\ inst.term * inst.frequency # 0
    /\ ~ (/\ periodic_rate(inst) = R(-2, 1)
          /\ (inst.term * inst.frequency) % 2 = 0)

\* (period / freq).alias("year") with the total (Bond, PrivateCredit: the
\* coupon, plus the principal in the last period) or the payment (Mortgage)
\* as cashflow, for one asset.
asset_rows(inst) ==
    IF inst.kind = "Mortgage"
    THEN IF payment_defined(inst)
         THEN Result([t \in 1..(inst.term * inst.frequency) |->
                        [year |-> R(t, inst.frequency),
                         cashflow |-> Payment("payment", inst)]], {})
         ELSE Failure("ZeroDivisionError", {})
    ELSE IF bullet_cashflows(inst.face_value, Zero,
                             inst.maturity * inst.frequency).raised # "none"
    THEN Failure("ValueError", {})
    ELSE Result([t \in 1..(inst.maturity * inst.frequency) |->
                   [year |-> R(t, inst.frequency),
                    cashflow |->
                       IF t < inst.maturity * inst.frequency
                       THEN Payment("coupon", inst)
                       ELSE AAdd(Payment("coupon", inst),
                                 Payment("principal", inst))]],
                {})

\* with_columns(ceil year).group_by("year").agg(sum): a function from the
\* years of one instrument to the sum of its cashflows in that year.
annualise(rows) ==
    [y \in {year_ceil(rows[i].year) : i \in DOMAIN rows} |->
        ASum([i \in DOMAIN rows |->
                IF year_ceil(rows[i].year) = y THEN rows[i].cashflow
                ELSE Cash(Zero)])]

\* The i-th smallest element of a set of integers.
Ranked(S, i) == CHOOSE y \in S : Cardinality({z \in S : z < y}) = i - 1

\* pl.concat(all_rows).group_by("year").agg(sum).sort("year"); concat of an
\* empty list raises ValueError.
year_table(all_rows) ==
    IF all_rows = <<>> THEN Failure("ValueError", {})
    ELSE Result(
           [k \in 1..Cardinality(UNION {DOMAIN all_rows[i] : i \in DOMAIN all_rows}) |->
              [year |-> Ranked(UNION {DOMAIN all_rows[i] : i \in DOMAIN all_rows}, k),
               cashflow |->
                  ASum([i \in DOMAIN all_rows |->
                          IF Ranked(UNION {DOMAIN all_rows[j] : j \in DOMAIN all_rows}, k)
                                \in DOMAIN all_rows[i]
                          THEN all_rows[i][Ranked(UNION {DOMAIN all_rows[j] :
                                                            j \in DOMAIN all_rows}, k)]
                          ELSE Cash(Zero)])]], {})

\* The loop of liability_cashflows over self._policies, given index_rates.
liability_table(policies, index_rates) ==
    IF \E i \in DOMAIN policies :
          policies[i].kind = "FIA" /\ Len(index_rates) < policies[i].term
    THEN Failure("IndexError", {})
    ELSE year_table([i \in DOMAIN policies |->
                       annualise(policy_rows(policies[i], index_rates))])

\* The loop of asset_cashflows over self._assets.
asset_year_table(assets) ==
    IF \E i \in DOMAIN assets : asset_rows(assets[i]).raised # "none"
    THEN asset_rows(assets[CHOOSE i \in DOMAIN assets :
                              asset_rows(assets[i]).raised # "none"])
    ELSE year_table([i \in DOMAIN assets |-> annualise(asset_rows(assets[i]).value)])

\* Blocks whose year tables are kept: local holds the last table each of
\* liability_cashflows and asset_cashflows returned.
TableConfigs == {c \in Configs : c.n_policies = MaxPolicies /\ c.premium # None}

InitTables ==
    \E c \in TableConfigs :
        /\ cfg = [b \in BlockIds |-> c]
        /\ premium = [b \in BlockIds |-> c.premium]
        /\ _policies = [b \in BlockIds |-> <<>>]
        /\ _assets = [b \in BlockIds |-> <<>>]
        /\ purchases = [b \in BlockIds |-> 0]
        /\ ret = [op |-> "init", block |-> "b1", year |-> 0, raised |-> FALSE,
                  value |-> <<>>]
        /\ local = [fn |-> "tables", liability_cashflows |-> NotCalled,
                    asset_cashflows |-> NotCalled]

\* The fields after a call that returns a table, and the table in local.
TableCall(op, b, gen, table) ==
    /\ premium' = [premium EXCEPT ![b] = gen.st.premium]
    /\ _policies' = [_policies EXCEPT ![b] = gen.st.policies]
    /\ _assets' = [_assets EXCEPT ![b] = gen.st.assets]
    /\ ret' = [op |-> op, block |-> b, year |-> 0,
               raised |-> table.raised # "none", value |-> <<>>]
    /\ local' = [local EXCEPT ![op] = table]
    /\ UNCHANGED <<cfg, purchases>>

\* Block.liability_cashflows, gen being the outcome of ensure_policies.
liability_cashflows_of(b, gen) ==
    IF gen.raised THEN Failure("raised", {})
    ELSE liability_table(gen.st.policies, cfg[b].index_rates)

liability_cashflows_table(b, gen) ==
    TableCall("liability_cashflows", b, gen, liability_cashflows_of(b, gen))

\* Block.asset_cashflows, gen being the outcome of ensure_assets.
asset_cashflows_of(gen) ==
    IF gen.raised THEN Failure("raised", {})
    ELSE asset_year_table(gen.st.assets)

asset_cashflows_table(b, gen) ==
    TableCall("asset_cashflows", b, gen, asset_cashflows_of(gen))

NextTables ==
    \/ liability_cashflows_table("b1", ensure_policies("b1", Fields("b1")))
    \/ asset_cashflows_table("b1", ensure_assets("b1", Fields("b1")))

SpecTables == InitTables /\ [][NextTables]_vars

\* _validate_qx (src/alm/liability.py): the warnings logged, one per flagged
\* entry, as <<index, message>> with the index counted from 0. An empty qx
\* never enters the loop.
_validate_qx(qx) ==
    {<<i - 1, "outside [0, 1]">> :
        i \in {j \in DOMAIN qx : RLt(qx[j], Zero) \/ RLt(One, qx[j])}}
    \cup
    {<<i - 1, "unusually high">> :
        i \in {j \in DOMAIN qx : /\ ~ (RLt(qx[j], Zero) \/ RLt(One, qx[j]))
                                 /\ RLt(R(1, 2), qx[j])}}

\* The dataclass constructor followed by __post_init__: the instance with the
\* fields as given, and the warnings of _validate_qx.
SPIA_post_init(self) == Result(self, _validate_qx(self.qx))

WL_post_init(self) == Result(self, _validate_qx(self.qx))

Term_post_init(self) == Result(self, _validate_qx(self.qx))

FIA_post_init(self) == Result(self, _validate_qx(self.qx))

\* Liability instruments constructed from qx vectors with and without
\* anomalies, then asked for their cashflows.
QxAnomalies == {R(-1, 10), Zero, R(1, 2), R(3, 4), One, R(3, 2)}

QxAnomalyVectors ==
    UNION {[1..n -> QxAnomalies] : n \in 0..MaxQxLen}

QxIndexRates == <<R(8, 100), R(-2, 100)>>

InitQx ==
    /\ NoBlocks
    /\ \E qx \in QxAnomalyVectors :
          local = [fn |-> "liability", qx |-> qx, instance |-> NotCalled,
                   cashflows |-> NotCalled]

SPIA_new ==
    /\ local.fn = "liability" /\ local.instance = NotCalled
    /\ local' = [local EXCEPT
                   !.instance = SPIA_post_init(SPIA(R(1000, 1), R(120, 1), local.qx, None))]
    /\ UNCHANGED BlockVars

WL_new ==
    /\ local.fn = "liability" /\ local.instance = NotCalled
    /\ local' = [local EXCEPT
                   !.instance = WL_post_init(WL(R(1000, 1), R(120, 1), local.qx, None))]
    /\ UNCHANGED BlockVars

Term_new ==
    /\ local.fn = "liability" /\ local.instance = NotCalled
    /\ local' = [local EXCEPT
                   !.instance = Term_post_init(Term(R(1000, 1), R(120, 1), 2, local.qx, None))]
    /\ UNCHANGED BlockVars

FIA_new ==
    /\ local.fn = "liability" /\ local.instance = NotCalled
    /\ local' = [local EXCEPT
                   !.instance = FIA_post_init(FIA(R(1000, 1), 2, local.qx, None))]
    /\ UNCHANGED BlockVars

\* self.cashflows() of the constructed instrument (an FIA is given two
\* index rates for its term of two years).
instance_cashflows(self) ==
    Result(policy_rows(self, QxIndexRates), {})

cashflows_of_instance ==
    /\ local.fn = "liability"
    /\ local.instance.raised = "none" /\ local.cashflows = NotCalled
    /\ local' = [local EXCEPT !.cashflows = instance_cashflows(local.instance.value)]
    /\ UNCHANGED BlockVars

NextQx == SPIA_new \/ WL_new \/ Term_new \/ FIA_new \/ cashflows_of_instance

SpecQx == InitQx /\ [][NextQx]_vars

\* Blocks whose first generated asset collection is remembered in local, to
\* compare later generations with it.
InitRegenerate ==
    \E c \in Configs :
        /\ cfg = [b \in BlockIds |-> c]
        /\ premium = [b \in BlockIds |-> c.premium]
        /\ _policies = [b \in BlockIds |-> <<>>]
        /\ _assets = [b \in BlockIds |-> <<>>]
        /\ purchases = [b \in BlockIds |-> 0]
        /\ ret = [op |-> "init", block |-> "b1", year |-> 0, raised |-> FALSE,
                  value |-> <<>>]
        /\ local = [fn |-> "regenerate", called |-> FALSE, assets |-> <<>>]

\* Block.generate_assets, out being the outcome of the call; the first
\* collection returned is kept in local.
generate_assets_recorded(b, out) ==
    /\ premium' = [premium EXCEPT ![b] = out.st.premium]
    /\ _policies' = [_policies EXCEPT ![b] = out.st.policies]
    /\ _assets' = [_assets EXCEPT ![b] = out.st.assets]
    /\ ret' = [op |-> "generate_assets", block |-> b, year |-> 0,
               raised |-> out.raised, value |-> out.value]
    /\ local' = IF local.called \/ out.raised THEN local
                ELSE [local EXCEPT !.called = TRUE, !.assets = out.value]
    /\ UNCHANGED <<cfg, purchases>>

NextRegenerate ==
    \/ generate_assets_recorded("b1", generate_assets_call("b1", Fields("b1")))
    \/ asset_cashflows("b1")
    \/ \E year \in Years : reinvest("b1", year)

SpecRegenerate == InitRegenerate /\ [][NextRegenerate]_vars

\* Blocks next to a credit_spreads.csv that is read anew by every lookup
\* (get_credit_spreads, src/alm/read.py) and may lose ratings between calls:
\* local holds the ratings the file has rows for.
AllRatings == DOMAIN credit_spreads

RatingSets == {AllRatings, AllRatings \ {"B"}, AllRatings \ {"AAA", "AA"}}

\* The ratings generate_assets and reinvest look up for an allocation.
lookups(alloc) ==
    (IF has_allocation(alloc, "govt_bonds")
     THEN {GOVT_RATING_DIST[i][1] : i \in DOMAIN GOVT_RATING_DIST} ELSE {})
    \cup (IF has_allocation(alloc, "corp_bonds")
          THEN {CORP_RATING_DIST[i][1] : i \in DOMAIN CORP_RATING_DIST} ELSE {})
    \cup (IF has_allocation(alloc, "mortgages") THEN {"A"} ELSE {})
    \cup (IF has_allocation(alloc, "private_credit")
          THEN {PC_RATING_DIST[i][1] : i \in DOMAIN PC_RATING_DIST} ELSE {})

\* Block.generate_assets when the file has rows for ratings only: get_spread
\* raises ValueError at the first rating without a row.
assets_after_given(c, prem, ratings) ==
    IF prem.raised THEN Raised(prem.st)
    ELSE IF ~ (lookups(allocation(c.saa, prem.st.premium[1])) \subseteq ratings)
    THEN Raised(prem.st)
    ELSE assets_after(c, prem)

\* reinvest with the matured positions dropped from the stored collection
\* before the replacements are bought.
reinvest_given_eager(c, st, year, proceeds, ratings) ==
    IF RLe(proceeds, Zero) THEN Returned(st, <<>>)
    ELSE IF ~ (lookups(allocation(c.saa, proceeds)) \subseteq ratings)
    THEN Raised([st EXCEPT !.assets = remaining_assets(st.assets, year)])
    ELSE reinvest_with(c, st, year, proceeds)

\* Block.reinvest when the file has rows for ratings only.
reinvest_given(c, st, year, proceeds, ratings) ==
    IF RLe(proceeds, Zero) THEN Returned(st, <<>>)
    ELSE IF ~ (lookups(allocation(c.saa, proceeds)) \subseteq ratings)
    THEN Raised(st)
    ELSE reinvest_with(c, st, year, proceeds)

InitFailing ==
    \E c \in TableConfigs :
        /\ cfg = [b \in BlockIds |-> c]
        /\ premium = [b \in BlockIds |-> c.premium]
        /\ _policies = [b \in BlockIds |-> <<>>]
        /\ _assets = [b \in BlockIds |-> <<>>]
        /\ purchases = [b \in BlockIds |-> 0]
        /\ ret = [op |-> "init", block |-> "b1", year |-> 0, raised |-> FALSE,
                  value |-> <<>>]
        /\ local = [fn |-> "assumptions", ratings |-> AllRatings]

\* The file is replaced by one with other rows.
credit_spreads_edited ==
    /\ \E ratings \in RatingSets \ {local.ratings} :
          local' = [local EXCEPT !.ratings = ratings]
    /\ UNCHANGED BlockVars

generate_assets_given(b) ==
    /\ Call("generate_assets", b, 0,
            assets_after_given(cfg[b], ensure_premium(b, Fields(b)), local.ratings))
    /\ UNCHANGED purchases

reinvest_in(b, year) ==
    reinvest_step(b, year,
                  reinvest_given(cfg[b], Fields(b), year,
                                 matured_proceeds(_assets[b], year), local.ratings))

NextFailing ==
    \/ generate_policies("b1")
    \/ generate_assets_given("b1")
    \/ \E year \in Years : reinvest_in("b1", year)
    \/ credit_spreads_edited

SpecFailing == InitFailing /\ [][NextFailing]_vars

-----------------------------------------------------------------------------
(* Vocabulary of the properties.                                           *)

\* No Bond or PrivateCredit of the collection has maturity < year.
NoneMatured(assets, year) ==
    \A i \in 1..Len(assets) :
        ~(assets[i].kind \in {"Bond", "PrivateCredit"} /\ assets[i].maturity < year)

\* The positions that are a Mortgage or have maturity >= year, in order.
Kept(assets, year) ==
    SelectSeq(assets, LAMBDA inst : inst.kind = "Mortgage" \/ inst.maturity >= year)

\* The invested capital of a position: face value, or principal of a Mortgage.
invested(inst) == IF inst.kind = "Mortgage" THEN inst.principal ELSE inst.face_value

capital(assets) == RSum([i \in 1..Len(assets) |-> invested(assets[i])])

\* The horizon of a position: maturity, or term of a Mortgage.
horizon(inst) == IF inst.kind = "Mortgage" THEN inst.term ELSE inst.maturity

\* The notional of a policy: premium of SPIA/FIA, face value of WL/Term.
notional(policy) ==
    IF policy.kind \in {"SPIA", "FIA"} THEN policy.premium ELSE policy.face_value

\* The asset class a position belongs to, read off its kind and rating.
asset_class(inst) ==
    CASE inst.kind = "Mortgage" -> "mortgages"
      [] inst.kind = "PrivateCredit" -> "private_credit"
      [] inst.kind = "Bond" /\ inst.rating \in {"AAA", "AA"} -> "govt_bonds"
      [] OTHER -> "corp_bonds"

class_capital(assets, class) ==
    capital(SelectSeq(assets, LAMBDA inst : asset_class(inst) = class))

AssetClasses == {"govt_bonds", "corp_bonds", "mortgages", "private_credit"}

\* (1 + profit_margin) times the summed present values of the policies.
loaded_pv(c, policies) ==
    RMul(RAdd(One, c.profit_margin),
         RSum([i \in 1..Len(policies) |-> policy_pv_benefits(c, policies[i])[1]]))

-----------------------------------------------------------------------------
(* C1..C10: Block.reinvest, generate_policies, generate_assets,            *)
(* calculate_premium.                                                      *)

C1_step ==
    (ret'.op = "reinvest" /\ NoneMatured(_assets[ret'.block], ret'.year)) =>
        /\ ~ret'.raised
        /\ ret'.value = <<>>
        /\ _assets' = _assets
        /\ _policies' = _policies
        /\ premium' = premium

\* C1: reinvest(year) on a Block none of whose Bonds or PrivateCredit has
\* maturity < year (a Block without assets included) returns the empty list
\* and leaves assets, policies and premium as they were; in particular it
\* generates no assets.
C1_ReinvestNothingMatured == [][C1_step]_vars

\* reinvest(5) returned nothing on a Block that holds a 5-year Bond.
C1_Witness ==
    /\ ret.op = "reinvest" /\ ret.year = 5 /\ ret.value = <<>>
    /\ \E i \in 1..Len(_assets[ret.block]) :
          /\ _assets[ret.block][i].kind = "Bond"
          /\ _assets[ret.block][i].maturity = 5

C2_step ==
    (ret'.op = "reinvest" /\ ~NoneMatured(_assets[ret'.block], ret'.year)) =>
        /\ ~ret'.raised
        /\ ret'.value # <<>>
        /\ _assets'[ret'.block] = Kept(_assets[ret'.block], ret'.year) \o ret'.value

\* C2: when some Bond or PrivateCredit has maturity < year, reinvest(year)
\* makes the asset collection the Mortgages and the positions of maturity
\* >= year, unchanged and in their order, followed by the purchased
\* positions, which are the returned, non-empty list.
C2_ReinvestReplacesMatured == [][C2_step]_vars

\* reinvest bought positions on a Block that keeps a Mortgage and a 10-year
\* Bond.
C2_Witness ==
    /\ ret.op = "reinvest" /\ ret.value # <<>>
    /\ Len(_assets[ret.block]) > Len(ret.value)
    /\ \E i \in 1..Len(_assets[ret.block]) : _assets[ret.block][i].kind = "Mortgage"
    /\ \E i \in 1..Len(_assets[ret.block]) :
          /\ _assets[ret.block][i].kind = "Bond"
          /\ _assets[ret.block][i].maturity = 10

C3_step ==
    ret'.op = "reinvest" =>
        capital(_assets'[ret'.block]) = capital(_assets[ret'.block])

\* C3: every reinvest call leaves the invested capital of the asset
\* collection (face values of Bonds and PrivateCredit plus principals of
\* Mortgages) as it was, for every SAA the constructor accepts.
C3_ReinvestPreservesCapital == [][C3_step]_vars

\* All the weight of the Block's SAA lies on the classes the Block invests.
KnownClasses(b) == DOMAIN cfg[b].saa \subseteq AssetClasses

\* C3 for the SAAs whose classes the Block knows: there reinvest preserves
\* the invested capital.
C3_KnownClassesPreserveCapital ==
    [][(ret'.op = "reinvest" /\ KnownClasses(ret'.block)) => C3_step]_vars

C5_step ==
    \A b \in BlockIds :
        _policies'[b] # _policies[b] =>
            /\ _policies[b] = <<>>
            /\ \A o \in BlockIds :
                  (cfg[o] = cfg[b] /\ _policies[o] # <<>>) => _policies'[b] = _policies[o]

\* C5: the policies a Block generates are a function of its parameters and
\* seed: an operation changes a Block's policy collection only from empty,
\* so generating again reproduces the collection held, and the collection
\* generated equals the one held by any Block constructed with the same
\* parameters and seed, whatever has run on either Block in between.
C5_PoliciesDeterministic == [][C5_step]_vars

\* generate_policies has just run on b2 while b1, constructed alike, holds
\* its policies; both hold the same MaxPolicies policies.
C5_Witness ==
    /\ ret.op = "generate_policies" /\ ret.block = "b2" /\ ~ret.raised
    /\ cfg["b1"] = cfg["b2"]
    /\ Len(_policies["b1"]) = MaxPolicies
    /\ _policies["b1"] = _policies["b2"]

\* C6: generate_policies returns and stores n_policies policies of the
\* class named by liability_type, each with issue age in the age range and
\* notional total_liability_amount / n_policies; the notionals sum to
\* total_liability_amount.
C6_GeneratedPolicies ==
    (ret.op = "generate_policies" /\ ~ret.raised) =>
        /\ _policies[ret.block] = ret.value
        /\ Len(ret.value) = cfg[ret.block].n_policies
        /\ \A i \in 1..Len(ret.value) :
              /\ ret.value[i].kind = cfg[ret.block].liability_type
              /\ ret.value[i].age \in
                    cfg[ret.block].age_range[1]..cfg[ret.block].age_range[2]
              /\ RMul(notional(ret.value[i]), R(cfg[ret.block].n_policies, 1))
                    = cfg[ret.block].total_liability_amount
        /\ RSum([i \in 1..Len(ret.value) |-> notional(ret.value[i])])
              = cfg[ret.block].total_liability_amount

\* generate_policies returned more than one policy.
C6_Witness ==
    /\ ret.op = "generate_policies" /\ ~ret.raised
    /\ Len(ret.value) > 1

\* C7: for every SAA the constructor accepts and a positive premium, the
\* positions generate_assets creates have invested capital equal to the
\* premium.
C7_AssetsInvestPremium ==
    (/\ ret.op = "generate_assets" /\ ~ret.raised
     /\ RLt(Zero, premium[ret.block][1])) =>
        capital(ret.value) = premium[ret.block][1]

\* C7 for the SAAs whose classes the Block knows: there generate_assets
\* invests exactly the premium.
C7_KnownClassesInvestPremium ==
    (/\ ret.op = "generate_assets" /\ ~ret.raised
     /\ KnownClasses(ret.block)) =>
        capital(ret.value) = premium[ret.block][1]

C8_step ==
    (ret'.op = "generate_assets" /\ ~ret'.raised) =>
        /\ IF premium[ret'.block] = None
           THEN /\ _policies'[ret'.block] # <<>>
                /\ _policies[ret'.block] # <<>> =>
                      _policies'[ret'.block] = _policies[ret'.block]
                /\ premium'[ret'.block] =
                      Some(loaded_pv(cfg[ret'.block], _policies'[ret'.block]))
           ELSE /\ premium'[ret'.block] = premium[ret'.block]
                /\ _policies'[ret'.block] = _policies[ret'.block]
        /\ _assets'[ret'.block] = ret'.value
        /\ \A k \in AssetClasses :
              class_capital(ret'.value, k) =
                  RMul(alloc_get(cfg[ret'.block].saa, k), premium'[ret'.block][1])

\* C8: generate_assets computes the premium, as calculate_premium does and
\* generating the policies if there are none, exactly when the premium is
\* None; with a premium set it leaves premium and policies as they were.
\* Either way each asset class receives its SAA weight of that premium.
C8_AssetsFromPremium == [][C8_step]_vars

\* generate_assets returned positions on a Block constructed with a premium,
\* with the premium as supplied and no policies generated.
C8_Witness ==
    /\ ret.op = "generate_assets" /\ ~ret.raised /\ ret.value # <<>>
    /\ cfg[ret.block].premium # None
    /\ premium[ret.block] = cfg[ret.block].premium
    /\ _policies[ret.block] = <<>>

C9_step ==
    (ret'.op = "calculate_premium" /\ ~ret'.raised) =>
        /\ _policies[ret'.block] # <<>> => _policies'[ret'.block] = _policies[ret'.block]
        /\ _policies'[ret'.block] # <<>>
        /\ premium'[ret'.block] = Some(ret'.value)
        /\ ret'.value = loaded_pv(cfg[ret'.block], _policies'[ret'.block])
        /\ (ret.op = "calculate_premium" /\ ~ret.raised /\ ret.block = ret'.block) =>
              ret'.value = ret.value

\* C9: calculate_premium keeps a policy collection the Block holds and
\* generates one only when there is none; on return the premium is the
\* returned value, (1 + profit_margin) times the summed present values of
\* the policies; called twice in a row it returns the same value.
C9_PremiumCalculated == [][C9_step]_vars

\* calculate_premium returned and stored a positive premium, with a positive
\* margin, that differs from the constructor's argument.
C9_Witness ==
    /\ ret.op = "calculate_premium" /\ ~ret.raised
    /\ RLt(Zero, cfg[ret.block].profit_margin)
    /\ RLt(Zero, ret.value)
    /\ premium[ret.block] = Some(ret.value)
    /\ premium[ret.block] # cfg[ret.block].premium

\* C10 as stated: once the premium is not None no operation changes it.
C10_PremiumNeverChanges ==
    [][\A b \in BlockIds : premium[b] # None => premium'[b] = premium[b]]_vars

C10_step ==
    \A b \in BlockIds :
        (premium[b] # None /\ premium'[b] # premium[b]) =>
            /\ ret'.op = "calculate_premium" /\ ret'.block = b /\ ~ret'.raised
            /\ premium[b] = cfg[b].premium
            /\ premium'[b] = Some(loaded_pv(cfg[b], _policies'[b]))

\* C10: a premium that is not None is changed by calculate_premium only,
\* and only when it is the one supplied at construction: calculate_premium
\* overwrites it with the computed premium, and a computed premium is never
\* changed by any operation.
C10_PremiumChangedOnlyByCalculate == [][C10_step]_vars

\* The premium supplied at construction has been overwritten with another
\* value, and the last operation, generate_assets, kept the computed one.
C10_Witness ==
    /\ ret.op = "generate_assets" /\ ~ret.raised
    /\ cfg[ret.block].premium # None
    /\ premium[ret.block] # None
    /\ premium[ret.block] # cfg[ret.block].premium


-----------------------------------------------------------------------------
(* C11..C20: constructors, irr, immunize, swaps, survival and liability    *)
(* cashflows.                                                              *)

\* C11: Block(...) raises ValueError when liability_type is none of SPIA,
\* WL, Term, FIA or gender_split lies outside [0, 1], and then no Block
\* exists; with both valid the constructor returns the Block.
C11_BlockConstructorFailsFast ==
    (local.fn = "Block" /\ local.pc # "call") =>
        IF /\ local.args.liability_type \in {"SPIA", "WL", "Term", "FIA"}
           /\ 0 <= local.args.gender_split[1]
           /\ local.args.gender_split[1] <= local.args.gender_split[2]
        THEN local.pc = "returned" /\ cfg = ("b1" :> local.args)
        ELSE local.pc = "ValueError" /\ cfg = <<>>

\* The constructor raised for a valid liability type whose gender_split
\* exceeds 1.
C11_Witness ==
    /\ local.fn = "Block" /\ local.pc = "ValueError"
    /\ local.args.liability_type = "Term"
    /\ local.args.gender_split = R(101, 100)


\* A weight in units of 1e-9 (the weights drawn are multiples of 1e-9).
nano(x) == x[1] * (1000000000 \div x[2])

RECURSIVE nano_sum(_, _)
nano_sum(weights, keys) ==
    IF keys = {} THEN 0
    ELSE LET k == CHOOSE x \in keys : TRUE
         IN  nano(weights[k]) + nano_sum(weights, keys \ {k})

\* The three conditions of C12 on a weight mapping, in units of 1e-9.
SAARejected(weights) ==
    \/ nano_sum(weights, DOMAIN weights) - 1000000000 > 1
    \/ 1000000000 - nano_sum(weights, DOMAIN weights) > 1
    \/ \E k \in DOMAIN weights : nano(weights[k]) < 0
    \/ /\ "private_credit" \in DOMAIN weights
       /\ nano(weights["private_credit"]) > 100000001

\* C12: SAA(weights) raises ValueError if and only if the sum of the
\* weights differs from 1 by more than 1e-9, or a weight is negative, or
\* the private_credit weight exceeds 0.10 + 1e-9; every SAA returned has
\* non-negative weights that sum to 1 within 1e-9 and private credit at
\* most 0.10 + 1e-9.
C12_SAAValidation ==
    (local.fn = "SAA" /\ local.pc # "call") =>
        local.pc = IF SAARejected(local.args) THEN "ValueError" ELSE "returned"

\* An SAA was returned whose private_credit weight is exactly 0.10.
C12_Witness ==
    /\ local.fn = "SAA" /\ local.pc = "returned"
    /\ "private_credit" \in DOMAIN local.args
    /\ local.args["private_credit"] = R(1, 10)


\* C13: irr returns only from an iteration whose Newton step is below tol
\* in absolute value, and every run that does not return ends by raising
\* ValueError.
C13_IrrReturnsOrValueError ==
    local.fn = "irr" =>
        /\ local.pc \in {"loop", "returned", "ValueError"}
        /\ local.pc = "returned" => RLt(RAbs(local.step), local.tol)

\* C13 without the claim on the exception: a return follows a step below
\* tol; ZeroDivisionError is raised only with the rate at -1; a run that
\* ends otherwise performed max_iter iterations or met a zero derivative
\* and raised ValueError.
C13_IrrOutcomes ==
    local.fn = "irr" =>
        /\ local.pc \in {"loop", "returned", "ValueError", "ZeroDivisionError"}
        /\ local.pc = "returned" =>
              RLt(RAbs(local.step), local.tol) /\ local.i \in 1..local.max_iter
        /\ local.pc = "ZeroDivisionError" => local.r = R(-1, 1)
        /\ (local.pc = "ValueError" /\ Len(local.cashflows) <= 1) => local.i <= 1
        /\ local.pc = "loop" => local.i <= local.max_iter

\* The cashflows are all strictly positive, at least two, and the guess is
\* above -1.
IrrAllPositive ==
    /\ local.fn = "irr"
    /\ Len(local.cashflows) >= 2
    /\ \A k \in 1..Len(local.cashflows) : local.cashflows[k] > 0
    /\ RLt(R(-1, 1), local.guess)

\* C14: with all-positive cashflows (at least two) and a guess above -1, irr
\* never returns, and every Newton step raises the rate by at least tol.
C14_AllPositiveNeverReturns ==
    IrrAllPositive =>
        /\ local.pc # "returned"
        /\ local.i > 0 => RLe(local.tol, RNeg(local.step))

\* C14 without the claim on the size of the step: every Newton step raises
\* the rate, and the run never raises ZeroDivisionError.
C14_AllPositiveStepsUp ==
    (IrrAllPositive /\ local.i > 0) =>
        /\ local.step[1] < 0
        /\ RLt(local.guess, local.r)
        /\ local.pc # "ZeroDivisionError"


Negated(pair) ==
    pair[1].raised = "none" =>
        /\ pair[2].raised = "none"
        /\ pair[2].value = RNeg(pair[1].value)

\* C16: a pay-fixed and a receive-fixed swap with identical terms, floating
\* rates and discount rate are exact mirrors: every period's net cashflow,
\* the present value and the dv01 of one are the negation of the other's.
C16_SwapSymmetry ==
    local.fn = "swap" =>
        /\ local.cashflows[1].raised = "none" =>
              /\ local.cashflows[2].raised = "none"
              /\ Len(local.cashflows[2].value) = Len(local.cashflows[1].value)
              /\ \A t \in 1..Len(local.cashflows[1].value) :
                    local.cashflows[2].value[t].net_cashflow
                       = RNeg(local.cashflows[1].value[t].net_cashflow)
        /\ Negated(local.present_value)
        /\ Negated(local.dv01)

\* All three methods returned for both swaps, with non-zero value and dv01.
C16_Witness ==
    /\ local.fn = "swap"
    /\ local.cashflows[1].raised = "none" /\ Len(local.cashflows[1].value) > 0
    /\ local.present_value[1].raised = "none"
    /\ local.present_value[1].value # Zero
    /\ local.dv01[1].raised = "none" /\ local.dv01[1].value # Zero


\* The product of (1 - qx[k]) over the first n years, written out.
RECURSIVE ProductOfSurvivors(_, _)
ProductOfSurvivors(qx, n) ==
    IF n = 0 THEN One
    ELSE RMul(RSub(One, qx[n]), ProductOfSurvivors(qx, n - 1))

IsWholeYear(t) == t[2] = 1

\* C17: S(0) = 1; at every whole year t <= len(qx), S(t) is the product of
\* (1 - qx[k]) for k in [0, t); at every t >= len(qx), whole or fractional,
\* S(t) = S(len(qx)): nothing is decremented past the end of qx.
C17_SurvivalAtWholeYears ==
    local.fn = "_survival_prob" =>
        \A i \in 1..Len(local.sp) :
            /\ local.times[i] = Zero => local.sp[i] = One
            /\ (IsWholeYear(local.times[i]) /\ local.times[i][1] <= Len(local.qx))
                  => local.sp[i] = ProductOfSurvivors(local.qx, local.times[i][1])
            /\ RLe(R(Len(local.qx), 1), local.times[i])
                  => local.sp[i] = ProductOfSurvivors(local.qx, Len(local.qx))

\* S was returned at a whole year inside qx and at a fractional time past
\* the end of a qx with a non-zero last rate.
C17_Witness ==
    /\ local.fn = "_survival_prob" /\ Len(local.sp) = 2
    /\ Len(local.qx) = 2 /\ local.qx[2] = R(1, 2) /\ local.qx[1] = R(1, 2)
    /\ local.times[1] = R(2, 1) /\ local.times[2] = R(9, 4)
    /\ local.sp = << R(1, 4), R(1, 4) >>

QxInUnitInterval(qx) ==
    \A k \in 1..Len(qx) : RLe(Zero, qx[k]) /\ RLe(qx[k], One)

\* C18: for qx with all values in [0, 1], S is non-increasing in t >= 0,
\* across year boundaries too, and stays within [0, 1].
C18_SurvivalNonIncreasing ==
    (local.fn = "_survival_prob" /\ QxInUnitInterval(local.qx)) =>
        /\ \A i \in 1..Len(local.sp) :
              RLe(Zero, local.sp[i]) /\ RLe(local.sp[i], One)
        /\ Len(local.sp) = 2 => RLe(local.sp[2], local.sp[1])

\* S was returned just before and just after a year boundary and fell.
C18_Witness ==
    /\ local.fn = "_survival_prob" /\ Len(local.sp) = 2
    /\ QxInUnitInterval(local.qx)
    /\ local.times[1] = R(3, 4) /\ local.times[2] = R(5, 4)
    /\ RLt(local.sp[2], local.sp[1]) /\ RLt(Zero, local.sp[2])


\* The rows of a returned SPIA schedule: the right number of periods, the
\* full payout up to and including the end of the certain period, and the
\* payout times S(t / frequency) afterwards.
SPIARows(self, cf) ==
    /\ Len(cf) = Len(self.qx) * self.frequency
    /\ \A t \in 1..Len(cf) :
          cf[t].expected_payout =
             IF t <= self.certain_period * self.frequency
             THEN RDiv(self.annual_payout, R(self.frequency, 1))
             ELSE RMul(RDiv(self.annual_payout, R(self.frequency, 1)),
                       _survival_prob(self.qx, R(t, self.frequency)))

ExpectedPayoutNonIncreasing(cf) ==
    \A t \in 1..(Len(cf) - 1) :
        RLe(cf[t + 1].expected_payout, cf[t].expected_payout)

\* C19 as stated: SPIA.cashflows has len(qx) * frequency periods, pays the
\* full per-period payout while t / frequency <= certain_period and the
\* payout times S(t / frequency) afterwards, and so for qx in [0, 1] the
\* expected payout is non-increasing in t.
C19_SPIAExpectedPayout ==
    (local.fn = "SPIA.cashflows" /\ local.pc = "returned") =>
        /\ SPIARows(local.self, local.cashflows)
        /\ QxInUnitInterval(local.self.qx)
              => ExpectedPayoutNonIncreasing(local.cashflows)

\* C19 amended: the same, with the expected payout non-increasing for qx in
\* [0, 1] and a non-negative annual_payout.
C19_SPIAExpectedPayoutNonNegative ==
    (local.fn = "SPIA.cashflows" /\ local.pc = "returned") =>
        /\ SPIARows(local.self, local.cashflows)
        /\ (QxInUnitInterval(local.self.qx) /\ RLe(Zero, local.self.annual_payout))
              => ExpectedPayoutNonIncreasing(local.cashflows)

\* A quarterly annuity with a one-year guarantee: full payout at the end of
\* year one (the boundary period), less in the next period.
C19_Witness ==
    /\ local.fn = "SPIA.cashflows" /\ local.pc = "returned"
    /\ local.self.frequency = 4 /\ local.self.certain_period = 1
    /\ local.self.annual_payout = R(12, 1)
    /\ local.self.qx = << R(1, 2), R(1, 2) >>
    /\ Len(local.cashflows) = 8
    /\ local.cashflows[4].expected_payout = R(3, 1)
    /\ local.cashflows[5].expected_payout = R(21, 16)


\* Row t of both schedules agrees in every column.
SameRow(a, b) ==
    /\ a.period = b.period /\ a.year = b.year
    /\ a.survival_prob = b.survival_prob
    /\ a.expected_premium = b.expected_premium
    /\ a.expected_benefit = b.expected_benefit
    /\ a.net_cashflow = b.net_cashflow

\* C20: Term.cashflows has exactly term * frequency periods whatever the
\* length of qx, and for term <= len(qx) its rows are the first
\* term * frequency rows of WL.cashflows built with the same face value,
\* annual premium, qx and frequency.
C20_TermIsTruncatedWL ==
    (local.fn = "Term.cashflows" /\ "Term" \in local.called) =>
        /\ Len(local.term_cashflows) = local.term.term * local.term.frequency
        /\ ("WL" \in local.called /\ local.term.term <= Len(local.term.qx))
              => \A t \in 1..Len(local.term_cashflows) :
                    /\ t <= Len(local.wl_cashflows)
                    /\ SameRow(local.term_cashflows[t], local.wl_cashflows[t])

\* A two-year term on a three-year qx: both schedules returned, the term
\* schedule is shorter and carries a non-zero expected benefit.
C20_Witness ==
    /\ local.fn = "Term.cashflows"
    /\ local.called = {"Term", "WL"}
    /\ local.term.term = 2 /\ Len(local.term.qx) = 3
    /\ local.term.frequency = 4
    /\ Len(local.term_cashflows) = 8 /\ Len(local.wl_cashflows) = 12
    /\ local.term_cashflows[8].expected_benefit # Zero

\* A term longer than qx still yields term * frequency periods.
C20_LongTermWitness ==
    /\ local.fn = "Term.cashflows" /\ "Term" \in local.called
    /\ local.term.term = 4 /\ Len(local.term.qx) = 1
    /\ Len(local.term_cashflows) = 4 * local.term.frequency


\* clamp(x, lo, hi) and the account value recursion, written out:
\* AV[0] = premium, AV[y] = AV[y-1] * (1 + clamp(rate[y] * participation)).
Clamp(x, lo, hi) == IF RLt(x, lo) \/ RLt(hi, lo) THEN lo ELSE IF RLt(hi, x) THEN hi ELSE x

RECURSIVE AV(_, _, _)
AV(self, index_rates, y) ==
    IF y = 0 THEN self.premium
    ELSE RMul(AV(self, index_rates, y - 1),
              RAdd(One, Clamp(RMul(index_rates[y], self.participation_rate),
                              self.floor, self.cap)))

\* C21: given at least term index rates, FIA.cashflows has exactly term
\* annual rows; the expected maturity benefit is zero except in the final
\* year, where it is AV[term] * S(term); every year's net cashflow is
\* AV[y] * (S(y-1) - S(y)) plus that year's maturity benefit.
C21_FIACashflows ==
    (local.fn = "FIA.cashflows" /\ local.pc # "call"
        /\ Len(local.index_rates) >= local.self.term) =>
        /\ local.pc = "returned"
        /\ Len(local.cashflows) = local.self.term
        /\ \A y \in 1..Len(local.cashflows) :
              /\ local.cashflows[y].year = y
              /\ local.cashflows[y].expected_maturity_benefit =
                    IF y = local.self.term
                    THEN RMul(AV(local.self, local.index_rates, y),
                              _survival_prob(local.self.qx, R(y, 1)))
                    ELSE Zero
              /\ local.cashflows[y].net_cashflow =
                    RAdd(RMul(AV(local.self, local.index_rates, y),
                              RSub(_survival_prob(local.self.qx, R(y - 1, 1)),
                                   _survival_prob(local.self.qx, R(y, 1)))),
                         local.cashflows[y].expected_maturity_benefit)

\* A three-year FIA with a floored, a passed-through and a capped index rate:
\* no maturity benefit before year three, a positive one in year three.
C21_Witness ==
    /\ local.fn = "FIA.cashflows" /\ local.pc = "returned"
    /\ local.self.term = 3 /\ Len(local.cashflows) = 3
    /\ local.index_rates = <<R(-1, 20), R(1, 50), R(1, 10)>>
    /\ local.self.cap = R(6, 100)
    /\ local.self.qx = << R(1, 2), R(1, 2), R(1, 2) >>
    /\ local.cashflows[2].expected_maturity_benefit = Zero
    /\ RLt(Zero, local.cashflows[2].net_cashflow)
    /\ RLt(Zero, local.cashflows[3].expected_maturity_benefit)


\* C22 as stated: for every Bond, present_value at a discount rate equal to
\* the coupon rate equals the face value.
C22_BondPricedAtPar ==
    (local.fn = "asset" /\ local.self.kind = "Bond"
        /\ local.discount_rate = local.self.coupon_rate
        /\ local.present_value # NotCalled) =>
        /\ local.present_value.raised = "none"
        /\ local.present_value.value = local.self.face_value

\* C22 amended: the same for every Bond with at least one period
\* (maturity >= 1) and a coupon rate other than -frequency.
C22_BondWithPeriodsPricedAtPar ==
    (local.fn = "asset" /\ local.self.kind = "Bond"
        /\ local.discount_rate = local.self.coupon_rate
        /\ local.present_value # NotCalled
        /\ local.self.maturity >= 1
        /\ local.self.coupon_rate # R(-local.self.frequency, 1)) =>
        /\ local.present_value.raised = "none"
        /\ local.present_value.value = local.self.face_value

\* A three-year semi-annual bond with a positive coupon priced at par.
C22_Witness ==
    /\ local.fn = "asset" /\ local.self.kind = "Bond"
    /\ local.self.maturity = 3 /\ local.self.frequency = 2
    /\ local.self.coupon_rate = R(1, 2)
    /\ local.discount_rate = local.self.coupon_rate
    /\ local.present_value = Result(R(100, 1), {})


\* The closed form agrees with the schedule at every period asked so far,
\* and the schedule ends with a zero balance.
BalancesAgree ==
    /\ local.cashflows.raised = "none"
    /\ Len(local.cashflows.value) = local.self.term * local.self.frequency
    /\ \A t \in 1..Len(local.balance_at) :
          /\ local.balance_at[t].raised = "none"
          /\ local.balance_at[t].value = local.cashflows.value[t].balance
    /\ Len(local.cashflows.value) > 0 =>
          local.cashflows.value[Len(local.cashflows.value)].balance = Zero

\* C23 as stated: for every Mortgage with a positive rate and every period
\* t in 1..n_periods, balance_at(t) equals the balance the generated
\* schedule records at period t, and the final balance is 0.
C23_BalanceAtMatchesSchedule ==
    (local.fn = "Mortgage" /\ local.cashflows # NotCalled
        /\ RLt(Zero, local.self.annual_rate)
        /\ local.self.term >= 1) => BalancesAgree

\* C23 amended: the same for every Mortgage with a positive rate and a
\* non-negative principal.
C23_BalanceAtMatchesScheduleNonNegative ==
    (local.fn = "Mortgage" /\ local.cashflows # NotCalled
        /\ RLt(Zero, local.self.annual_rate)
        /\ RLe(Zero, local.self.principal)
        /\ local.self.term >= 1) => BalancesAgree

\* A two-year semi-annual mortgage: the schedule and all four closed-form
\* balances are there, and the balance after two payments is positive.
C23_Witness ==
    /\ local.fn = "Mortgage" /\ local.cashflows.raised = "none"
    /\ local.self.term = 2 /\ local.self.frequency = 2
    /\ local.self.principal = R(100, 1) /\ local.self.annual_rate = One
    /\ Len(local.balance_at) = 4
    /\ RLt(Zero, local.balance_at[2].value)
    /\ local.balance_at[2].value = local.cashflows.value[2].balance
    /\ local.balance_at[4].value = Zero


\* The limit of the duration range and the labels of the two warnings.
DurationLimit(self) == IF self.kind = "Mortgage" THEN self.term ELSE self.maturity

DurationWarnings ==
    { "Bond duration outside expected range",
      "Mortgage duration outside expected range",
      "PrivateCredit duration outside expected range" }

PVWarnings ==
    { "Bond PV is negative", "Mortgage PV is negative",
      "PrivateCredit PV is negative" }

OutsideRange(self, dur) == RLt(dur, Zero) \/ RLt(R(DurationLimit(self), 1), dur)

\* C25: for Bond, Mortgage and PrivateCredit alike, a duration computed
\* outside [0, maturity] and a present value computed negative are each
\* flagged by a warning, and the computed value is still returned.
C25_AnomaliesAreFlagged ==
    local.fn = "asset" =>
        /\ (local.present_value.raised = "none"
              /\ RLt(local.present_value.value, Zero))
              => local.present_value.warned \cap PVWarnings # {}
        /\ (local.duration.raised = "none"
              /\ OutsideRange(local.self, local.duration.value))
              => local.duration.warned \cap DurationWarnings # {}

\* The same for Bond and Mortgage only, whose duration methods carry the check.
C25_BondAndMortgageAnomaliesAreFlagged ==
    (local.fn = "asset" /\ local.self.kind # "PrivateCredit") =>
        /\ (local.present_value.raised = "none"
              /\ RLt(local.present_value.value, Zero))
              => local.present_value.warned \cap PVWarnings # {}
        /\ (local.duration.raised = "none"
              /\ OutsideRange(local.self, local.duration.value))
              => local.duration.warned \cap DurationWarnings # {}

\* A private-credit position with a positive present value whose duration
\* was returned above its maturity without any warning.
C25_Witness ==
    /\ local.fn = "asset" /\ local.self.kind = "PrivateCredit"
    /\ local.present_value.raised = "none"
    /\ RLt(Zero, local.present_value.value)
    /\ local.duration.raised = "none"
    /\ RLt(R(local.self.maturity, 1), local.duration.value)
    /\ local.duration.warned = {}


\* ceil(t / frequency) for a period t >= 1.
CeilDiv(t, frequency) == (t + frequency - 1) \div frequency

\* The year a policy's i-th native row belongs to: its period over its
\* frequency, rounded up (an FIA has one row per year).
PolicyYear(policy, index_rates, i) ==
    IF policy.kind = "FIA" THEN FIA_cashflows(policy, index_rates)[i].year
    ELSE IF policy.kind = "SPIA"
    THEN CeilDiv(SPIA_cashflows(policy)[i].period, policy.frequency)
    ELSE IF policy.kind = "WL"
    THEN CeilDiv(WL_cashflows(policy)[i].period, policy.frequency)
    ELSE CeilDiv(Term_cashflows(policy)[i].period, policy.frequency)

\* The native amounts of the policies falling in the year y.
PolicyAmountsIn(policies, index_rates, y) ==
    ASum([p \in DOMAIN policies |->
            ASum([i \in DOMAIN policy_rows(policies[p], index_rates) |->
                    IF PolicyYear(policies[p], index_rates, i) = y
                    THEN policy_rows(policies[p], index_rates)[i].cashflow
                    ELSE Cash(Zero)])])

PolicyYears(policies, index_rates) ==
    UNION {{PolicyYear(policies[p], index_rates, i) :
               i \in DOMAIN policy_rows(policies[p], index_rates)} :
           p \in DOMAIN policies}

AllPolicyAmounts(policies, index_rates) ==
    ASum([p \in DOMAIN policies |->
            ASum([i \in DOMAIN policy_rows(policies[p], index_rates) |->
                    policy_rows(policies[p], index_rates)[i].cashflow])])

AssetPeriods(inst) ==
    IF inst.kind = "Mortgage" THEN inst.term * inst.frequency
    ELSE inst.maturity * inst.frequency

\* The native amounts of the assets falling in the year y.
AssetAmountsIn(assets, y) ==
    ASum([a \in DOMAIN assets |->
            ASum([t \in 1..AssetPeriods(assets[a]) |->
                    IF CeilDiv(t, assets[a].frequency) = y
                    THEN asset_rows(assets[a]).value[t].cashflow
                    ELSE Cash(Zero)])])

AssetYears(assets) ==
    UNION {{CeilDiv(t, assets[a].frequency) : t \in 1..AssetPeriods(assets[a])} :
           a \in DOMAIN assets}

AllAssetAmounts(assets) ==
    ASum([a \in DOMAIN assets |->
            ASum([t \in 1..AssetPeriods(assets[a]) |->
                    asset_rows(assets[a]).value[t].cashflow])])

\* table has one row per year of the set years, in ascending order, and
\* the row of the year y carries amounts(y).
IsYearTable(table, years, total) ==
    /\ Len(table) = Cardinality(years)
    /\ {table[k].year : k \in DOMAIN table} = years
    /\ \A k \in 1..(Len(table) - 1) : table[k].year < table[k + 1].year
    /\ ASum([k \in DOMAIN table |-> table[k].cashflow]) = total

\* C24: the table returned by liability_cashflows (asset_cashflows) has
\* exactly one row per distinct year ceil(t / frequency) of the native periods
\* of the policies (assets), in ascending order of year; the cashflow of a
\* year is the sum over all policies (assets) of the native amounts of the
\* periods falling in that year, and the table's total is the sum of every
\* native amount.
C24_YearTables ==
    /\ (ret.op = "liability_cashflows" /\ ~ ret.raised) =>
          /\ IsYearTable(local.liability_cashflows.value,
                         PolicyYears(_policies["b1"], cfg["b1"].index_rates),
                         AllPolicyAmounts(_policies["b1"], cfg["b1"].index_rates))
          /\ \A k \in DOMAIN local.liability_cashflows.value :
                local.liability_cashflows.value[k].cashflow =
                   PolicyAmountsIn(_policies["b1"], cfg["b1"].index_rates,
                                   local.liability_cashflows.value[k].year)
    /\ (ret.op = "asset_cashflows" /\ ~ ret.raised) =>
          /\ IsYearTable(local.asset_cashflows.value, AssetYears(_assets["b1"]),
                         AllAssetAmounts(_assets["b1"]))
          /\ \A k \in DOMAIN local.asset_cashflows.value :
                local.asset_cashflows.value[k].cashflow =
                   AssetAmountsIn(_assets["b1"], local.asset_cashflows.value[k].year)

\* Both tables were returned: the liabilities of at least two policies with
\* several periods per year, and the assets of a portfolio holding bonds and
\* mortgages, over more than one year.
C24_Witness ==
    /\ ret.op = "asset_cashflows" /\ ~ ret.raised
    /\ local.liability_cashflows.raised = "none"
    /\ Len(_policies["b1"]) >= 2
    /\ \E p \in DOMAIN _policies["b1"] :
          _policies["b1"][p].kind # "FIA" /\ _policies["b1"][p].frequency > 1
    /\ Len(local.liability_cashflows.value) >= 2
    /\ \E a, m \in DOMAIN _assets["b1"] :
          /\ _assets["b1"][a].kind = "Bond"
          /\ _assets["b1"][m].kind = "Mortgage"
    /\ Len(local.asset_cashflows.value) >= 2


\* qx is malformed: empty, or with a value outside [0, 1] or above 0.5.
MalformedQx(qx) ==
    \/ qx = <<>>
    \/ \E i \in DOMAIN qx : RLt(qx[i], Zero) \/ RLt(R(1, 2), qx[i])

\* The constructor returned the instrument with qx stored as given, and its
\* cashflows were computed without raising once asked for.
ConstructedUnmodified ==
    /\ local.instance.raised = "none"
    /\ local.instance.value.qx = local.qx
    /\ local.cashflows # NotCalled => local.cashflows.raised = "none"

\* C26: constructing an SPIA, WL, Term or FIA with a malformed qx (empty, a
\* value outside [0, 1], or a value above 0.5) logs a warning and never
\* raises; qx is stored unmodified and the cashflows are still computed.
C26_MalformedQxWarns ==
    (local.instance # NotCalled /\ MalformedQx(local.qx)) =>
        /\ ConstructedUnmodified
        /\ local.instance.warned # {}

\* Supplement to C26: what holds of the code. Every entry of qx outside
\* [0, 1] or above 0.5 is warned about by index, no other entry is, no
\* constructor raises, qx is stored unmodified and the cashflows are computed.
C26_FlaggedEntriesWarn ==
    local.instance # NotCalled =>
        /\ ConstructedUnmodified
        /\ {w[1] : w \in local.instance.warned} =
              {i - 1 : i \in {j \in DOMAIN local.qx :
                                 RLt(local.qx[j], Zero) \/ RLt(R(1, 2), local.qx[j])}}

\* An instrument was constructed from an empty qx, silently, and its
\* cashflows were computed.
C26_Witness ==
    /\ local.instance # NotCalled
    /\ local.qx = <<>>
    /\ local.instance.warned = {}
    /\ local.cashflows # NotCalled


\* The Bonds and PrivateCredits of a collection whose maturity is below year.
MaturedIn(assets, year) ==
    {i \in DOMAIN assets : /\ assets[i].kind \in {"Bond", "PrivateCredit"}
                           /\ assets[i].maturity < year}

\* C27: after reinvest(year) returns, the asset collection holds no Bond or
\* PrivateCredit whose maturity is strictly less than year (so that a
\* repeated reinvest(year) finds nothing to sell).
C27_NoMaturedAfterReinvest ==
    (ret.op = "reinvest" /\ ~ ret.raised) =>
        MaturedIn(_assets[ret.block], ret.year) = {}

\* Supplement to C27: what holds of the code. Up to year 5 the replacement
\* positions, bought with maturity 5, are not below the year, and nothing
\* matured is left after reinvest returns.
C27_NoMaturedAfterReinvestUpToYearFive ==
    (ret.op = "reinvest" /\ ~ ret.raised /\ ret.year <= 5) =>
        MaturedIn(_assets[ret.block], ret.year) = {}

\* reinvest(6) sold matured positions and returned 5-year replacements,
\* which the collection now holds with a maturity below the year.
C27_Witness ==
    /\ ret.op = "reinvest" /\ ~ ret.raised /\ ret.year = 6
    /\ ret.value # <<>>
    /\ \E i \in MaturedIn(_assets[ret.block], 6) :
          \E j \in DOMAIN ret.value : ret.value[j] = _assets[ret.block][i]


\* The face value of a Bond or PrivateCredit, the principal of a Mortgage.
Invested(inst) == IF inst.kind = "Mortgage" THEN inst.principal ELSE inst.face_value

AllPositive(assets) == \A i \in DOMAIN assets : RLt(Zero, Invested(assets[i]))

\* reinvest(year) returns purchases exactly when a Bond or PrivateCredit of
\* the collection has a maturity below year.
BuysWhenMatured(b, year) ==
    (ret'.op = "reinvest" /\ ret'.block = b /\ ret'.year = year /\ ~ ret'.raised) =>
        (ret'.value # <<>> <=> MaturedIn(_assets[b], year) # {})

\* C28: in every state reachable through generate_assets and reinvest (and
\* the other Block operations) every position of the asset collection has a
\* strictly positive face value or principal; so a reinvest call buys, its
\* proceeds being positive, exactly when some Bond or PrivateCredit has a
\* maturity below the year, and never returns empty-handed leaving a matured
\* position in place.
C28_PositionsArePositive ==
    /\ [](\A b \in BlockIds : AllPositive(_assets[b]))
    /\ [][\A b \in BlockIds, year \in Years : BuysWhenMatured(b, year)]_vars

\* reinvest has sold matured positions and bought replacements, all held
\* with a positive face value or principal, next to positions kept from
\* generate_assets.
C28_Witness ==
    /\ ret.op = "reinvest" /\ ~ ret.raised /\ ret.value # <<>>
    /\ Len(_assets[ret.block]) > Len(ret.value)
    /\ AllPositive(_assets[ret.block])


\* An asset_cashflows step leaves a non-empty collection untouched and
\* stores a generated collection in place of an empty one.
GeneratesOnlyWhenEmpty(b) ==
    (ret'.op = "asset_cashflows" /\ ret'.block = b) =>
        IF _assets[b] # <<>> THEN _assets'[b] = _assets[b]
        ELSE ~ ret'.raised => _assets'[b] = generate_assets_call(b, Fields(b)).value

\* C29: generate_assets overwrites the stored collection with one built from
\* the premium, the SAA, the discount rate and the liability type alone:
\* called after any sequence of reinvest calls it discards the reinvested
\* positions and stores and returns the collection of the first
\* generate_assets call; asset_cashflows generates only when the collection
\* is empty and otherwise leaves it untouched.
C29_GenerateAssetsRebuilds ==
    /\ []((ret.op = "generate_assets" /\ ~ ret.raised) =>
             /\ _assets[ret.block] = local.assets
             /\ ret.value = local.assets)
    /\ [][\A b \in BlockIds : GeneratesOnlyWhenEmpty(b)]_vars

\* generate_assets has returned after reinvest had replaced matured
\* positions, and the collection is that of the first generation again.
C29_Witness ==
    /\ ret.op = "generate_assets" /\ ~ ret.raised
    /\ purchases["b1"] >= 1
    /\ local.called /\ local.assets # <<>>
    /\ _assets["b1"] = local.assets


\* A step of the operation op on the Block b that raised.
RaisedIn(op, b) == ret' # ret /\ ret'.op = op /\ ret'.block = b /\ ret'.raised

\* C30: a failing Block operation stores no partially built collection: when
\* generate_policies raises, the stored policies are exactly those before the
\* call, and when generate_assets or reinvest raises, the stored assets are
\* exactly those before the call.
C30_FailureStoresNothing ==
    [][\A b \in BlockIds :
          /\ RaisedIn("generate_policies", b) => _policies'[b] = _policies[b]
          /\ RaisedIn("generate_assets", b) => _assets'[b] = _assets[b]
          /\ RaisedIn("reinvest", b) => _assets'[b] = _assets[b]]_vars

\* reinvest has raised on a rating without a row while matured positions
\* were to be replaced, and the Block still holds them.
C30_Witness ==
    /\ ret.op = "reinvest" /\ ret.raised
    /\ MaturedIn(_assets[ret.block], ret.year) # {}
    /\ ~ (AllRatings \subseteq local.ratings)

=============================================================================
